---- MODULE Spec2Model ----
(***************************************************************************)
(* A model of the DSFR documentation server core: the Map-based LRU cache  *)
(* (cache.ts), the content accessor readFileWithCache and the component    *)
(* doc resolver getComponentDoc (core.ts).                                 *)
(*                                                                         *)
(* Strings whose characters matter (names, titles, queries, file texts)    *)
(* are sequences of one-character strings, so that toLowerCase, includes   *)
(* and === are computed character by character.                            *)
(***************************************************************************)
EXTENDS Integers, Sequences, FiniteSets, TLC

VARIABLES
    cstate,     \* "none" before `new LRUCache`, "ready" after it, "threw" if it threw
    maxSize,    \* LRUCache.maxSize (0 while no cache object exists)
    map,        \* LRUCache.map: the entries [k, v] in Map iteration (insertion) order
    lastOp,     \* the last call: [op, n, key, val, hit, isNew, evicted]
    prevOp,     \* the call before it
    ret,        \* what the last cache.get or readFileWithCache returned: [def, val]
    tick,       \* number of cache calls made so far
    lastUse,    \* key -> tick of its last successful get or set (0: never)
    pureSets,   \* TRUE while every call so far was a set of a key never set before
    index,      \* the loaded documentation index: a sequence of ComponentEntry
    disk,       \* the docs directory: file path -> file text, for the files that exist
    call,       \* the last query handled: [op, name, section, entry, path, outcome]
    payload,    \* the text of the ToolTextResult it returned
    trace,      \* the cache and file-system calls it made, in order
    results,    \* searchComponents: the SearchResult records pushed, in order
    reads,      \* searchComponents: the paths handed to readFileWithCache, in order
    icons,      \* the loaded icons list: a sequence of IconEntry
    scored,     \* searchIcons: the scored array after the loop over the candidates
    limited,    \* searchIcons: the scored array after sort and slice
    colors,     \* the loaded ColorsIndex
    tokens,     \* getColorTokens: the decision tokens left by the filters
    colorSections,  \* getColorTokens: the sections array, in order
    sectionContent,  \* searchComponents: the text of a section file being excerpted
    needle,     \* searchComponents: q, the lower-cased query found in it
    excerpt,    \* searchComponents: the excerpt computed for the result
    pc,         \* index.ts: the top-level statement the process is at
    artifacts,  \* docs/index.json, icons.json, colors.json: [def, val] per file
    loads,      \* artifact file -> number of times a loader read it
    fatal,      \* the message of the error that ended the process, if any
    pending,    \* tool requests received and not yet handed to their handler
    running,    \* the handler invocations begun and not yet returned
    received,   \* number of tool requests received so far
    oplog,      \* the request ids of the readFileWithCache calls made, in order
    atomicMap   \* the cache as whole completed queries, one after another, leave it

searchVars == <<results, reads>>
iconVars == <<icons, scored, limited>>
colorVars == <<colors, tokens, colorSections>>
excerptVars == <<sectionContent, needle, excerpt>>
startupVars == <<pc, artifacts, loads, fatal>>
schedVars == <<pending, running, received, oplog, atomicMap>>
serverVars == <<excerptVars, startupVars, schedVars>>
docVars == <<index, disk, call, payload, trace, searchVars, iconVars, colorVars,
             serverVars>>
vars == <<cstate, maxSize, map, lastOp, prevOp, ret, tick, lastUse, pureSets,
          index, disk, call, payload, trace, results, reads, icons, scored, limited,
          colors, tokens, colorSections, sectionContent, needle, excerpt, pc, artifacts,
          loads, fatal, pending, running, received, oplog, atomicMap>>

----------------------------------------------------------------------------
(* Bounds of the model *)

\* largest capacity handed to the constructor
MaxCap == 3
\* number of cache calls in one behaviour of SpecLRU
MaxOps == 5

\* capacities tried by the constructor, the invalid ones (0, -1) included
Capacities == (0 - 1) .. MaxCap

LRUKeys == {<<"a">>, <<"b">>, <<"c">>, <<"d">>}
LRUValues == {<<"1">>, <<"2">>}

----------------------------------------------------------------------------
(* JavaScript values *)

\* `undefined`, and a defined value v
Undefined == [def |-> FALSE, val |-> <<>>]
Def(v) == [def |-> TRUE, val |-> v]

----------------------------------------------------------------------------
(* JavaScript Map, as the sequence of its entries in insertion order *)

MapKeys(m) == {m[i].k : i \in 1 .. Len(m)}

MapHas(m, key) == key \in MapKeys(m)

MapGet(m, key) ==
    IF MapHas(m, key)
    THEN Def((CHOOSE e \in {m[i] : i \in 1 .. Len(m)} : e.k = key).v)
    ELSE Undefined

MapDelete(m, key) == SelectSeq(m, LAMBDA e : e.k # key)

\* Map.prototype.set: an existing key keeps its position, a new key goes last
MapSet(m, key, value) ==
    IF MapHas(m, key)
    THEN [i \in 1 .. Len(m) |-> IF m[i].k = key THEN [k |-> key, v |-> value] ELSE m[i]]
    ELSE Append(m, [k |-> key, v |-> value])

\* mutant of MapFirstKey: takes the newest key instead of the oldest
MapFirstKey_newest(m) == m[Len(m)].k

\* map.keys().next().value
MapFirstKey(m) == m[1].k

----------------------------------------------------------------------------
(* LRUCache *)

\* mutant of ConstructorThrows: the guard off by one (maxSize < 0)
ConstructorThrows_negative(n) == n < 0

\* constructor(maxSize): throws when maxSize < 1
ConstructorThrows(n) == n < 1

\* mutant of LRUGetMap: get without the delete + re-insert
LRUGetMap_norefresh(m, key) == m

\* get(key): the map afterwards
LRUGetMap(m, key) ==
    LET value == MapGet(m, key)
    IN  IF ~value.def THEN m
        ELSE MapSet(MapDelete(m, key), key, value.val)

\* get(key): the value returned
LRUGetRet(m, key) == MapGet(m, key)

\* mutant of LRUEvict: evicts as soon as the map reaches maxSize
LRUEvict_atcapacity(m, n) ==
    IF Len(m) >= n THEN MapDelete(m, MapFirstKey(m)) ELSE m

\* mutant of LRUEvict: set never evicts
LRUEvict_never(m, n) == m

\* the eviction branch of set: when the map outgrew maxSize, drop its first key
LRUEvict(m, n) ==
    IF Len(m) > n THEN MapDelete(m, MapFirstKey(m)) ELSE m

\* mutant of LRUSetMap: set without the delete of an existing key
LRUSetMap_inplace(m, n, key, value) == LRUEvict(MapSet(m, key, value), n)

\* set(key, value): the map afterwards
LRUSetMap(m, n, key, value) ==
    LET m1 == IF MapHas(m, key) THEN MapDelete(m, key) ELSE m
        m2 == MapSet(m1, key, value)
    IN  LRUEvict(m2, n)

\* get size()
size == Len(map)

----------------------------------------------------------------------------
(* The cache driven directly, as the unit tests drive it *)

\* no query handled yet
\* no section content in hand
ExcerptIdle == sectionContent = <<>> /\ needle = <<>> /\ excerpt = <<>>

\* the process past its start-up
StartupIdle == pc = "serving" /\ artifacts = <<>> /\ loads = <<>> /\ fatal = <<>>

\* no request waiting or in hand
SchedIdle ==
    /\ pending = <<>> /\ running = <<>> /\ received = 0 /\ oplog = <<>>
    /\ atomicMap = <<>>

ServerIdle == ExcerptIdle /\ StartupIdle /\ SchedIdle

NoCall == [op |-> "none", name |-> <<>>, section |-> <<>>, entry |-> 0,
           path |-> <<>>, outcome |-> "none"]

\* evicted: the keys the call removed from the map
NoOp == [op |-> "none", n |-> 0, key |-> <<>>, val |-> <<>>, hit |-> FALSE,
         isNew |-> FALSE, evicted |-> {}]

InitLRU ==
    /\ cstate = "none"
    /\ maxSize = 0
    /\ map = <<>>
    /\ lastOp = NoOp
    /\ prevOp = NoOp
    /\ ret = Undefined
    /\ tick = 0
    /\ lastUse = [k \in LRUKeys |-> 0]
    /\ pureSets = TRUE
    /\ index = <<>>
    /\ disk = <<>>
    /\ call = NoCall
    /\ payload = <<>>
    /\ trace = <<>>
    /\ results = <<>>
    /\ reads = <<>>
    /\ icons = <<>>
    /\ scored = <<>>
    /\ limited = <<>>
    /\ colors = [decisionTokens |-> <<>>, families |-> <<>>, illustrativeNames |-> <<>>]
    /\ tokens = <<>>
    /\ colorSections = <<>>
    /\ ServerIdle

\* new LRUCache(n)
Construct(n) ==
    /\ cstate = "none"
    /\ IF ConstructorThrows(n)
       THEN cstate' = "threw" /\ maxSize' = maxSize
       ELSE cstate' = "ready" /\ maxSize' = n
    /\ lastOp' = [NoOp EXCEPT !.op = "new", !.n = n]
    /\ prevOp' = lastOp
    /\ UNCHANGED <<map, ret, tick, lastUse, pureSets, docVars>>

\* cache.get(key)
Get(key) ==
    /\ cstate = "ready"
    /\ tick < MaxOps
    /\ map' = LRUGetMap(map, key)
    /\ ret' = LRUGetRet(map, key)
    /\ lastOp' = [NoOp EXCEPT !.op = "get", !.key = key, !.val = ret'.val,
                               !.hit = MapHas(map, key),
                               !.evicted = MapKeys(map) \ MapKeys(map')]
    /\ prevOp' = lastOp
    /\ tick' = tick + 1
    /\ lastUse' = IF MapHas(map, key) THEN [lastUse EXCEPT ![key] = tick + 1] ELSE lastUse
    /\ pureSets' = FALSE
    /\ UNCHANGED <<cstate, maxSize, docVars>>

\* cache.set(key, value)
Set(key, value) ==
    /\ cstate = "ready"
    /\ tick < MaxOps
    /\ map' = LRUSetMap(map, maxSize, key, value)
    /\ ret' = Undefined
    /\ lastOp' = [NoOp EXCEPT !.op = "set", !.key = key, !.val = value,
                               !.hit = MapHas(map, key), !.isNew = ~MapHas(map, key),
                               !.evicted = MapKeys(map) \ MapKeys(map')]
    /\ prevOp' = lastOp
    /\ tick' = tick + 1
    /\ lastUse' = [lastUse EXCEPT ![key] = tick + 1]
    /\ pureSets' = (pureSets /\ lastUse[key] = 0)
    /\ UNCHANGED <<cstate, maxSize, docVars>>

\* cache.clear()
Clear ==
    /\ cstate = "ready"
    /\ tick < MaxOps
    /\ map' = <<>>
    /\ ret' = Undefined
    /\ lastOp' = [NoOp EXCEPT !.op = "clear", !.evicted = MapKeys(map)]
    /\ prevOp' = lastOp
    /\ tick' = tick + 1
    /\ pureSets' = FALSE
    /\ UNCHANGED <<cstate, maxSize, lastUse, docVars>>

NextLRU ==
    \/ \E n \in Capacities : Construct(n)
    \/ \E key \in LRUKeys : Get(key)
    \/ \E key \in LRUKeys, value \in LRUValues : Set(key, value)
    \/ Clear

SpecLRU == InitLRU /\ [][NextLRU]_vars

----------------------------------------------------------------------------
(* JavaScript strings and arrays.  A string is a sequence of one-character *)
(* strings; a literal chunk of a template is kept as one element.          *)

Min(a, b) == IF a < b THEN a ELSE b

\* one character of String.prototype.toLowerCase
LowerChar(c) ==
    CASE c = "A" -> "a"
      [] c = "B" -> "b"
      [] c = "C" -> "c"
      [] OTHER -> c

\* String.prototype.toLowerCase
ToLowerCase(s) == [i \in 1 .. Len(s) |-> LowerChar(s[i])]

\* String.prototype.includes
Includes(s, t) ==
    \E i \in 0 .. (Len(s) - Len(t)) : \A j \in 1 .. Len(t) : s[i + j] = t[j]

\* Array.prototype.includes
ArrayIncludes(arr, x) == \E i \in 1 .. Len(arr) : arr[i] = x

\* Array.prototype.slice(0, n)
SliceFirst(arr, n) == SubSeq(arr, 1, Min(n, Len(arr)))

\* Array.prototype.join
RECURSIVE Join(_, _)
Join(arr, sep) ==
    IF Len(arr) = 0 THEN <<>>
    ELSE IF Len(arr) = 1 THEN arr[1]
    ELSE arr[1] \o sep \o Join(Tail(arr), sep)

----------------------------------------------------------------------------
(* The docs directory and the file system calls *)

DOCS_DIR == <<"docs">>

\* path.join(docsDir, category, name, file)
PathJoin(docsDir, category, name, file) ==
    docsDir \o <<"/">> \o category \o <<"/">> \o name \o <<"/">> \o file

\* mutant of SectionPath: the category directory left out
SectionPath_nocategory(docsDir, entry, section) ==
    docsDir \o <<"/">> \o entry.name \o <<"/">> \o section \o <<".md">>

\* join(docsDir, entry.category, entry.name, `${section}.md`)
SectionPath(docsDir, entry, section) ==
    PathJoin(docsDir, entry.category, entry.name, section \o <<".md">>)

\* mutant of ExistsSync: the existence check dropped
ExistsSync_always(d, filePath) == TRUE

\* existsSync(filePath)
ExistsSync(d, filePath) == filePath \in DOMAIN d

\* readFileSync(filePath, "utf-8"): throws ENOENT on a file that does not exist
ReadFileSync(d, filePath) ==
    IF filePath \in DOMAIN d
    THEN [threw |-> FALSE, text |-> d[filePath]]
    ELSE [threw |-> TRUE, text |-> <<>>]

\* mutant of ReadFileWithCache: the not-found result is cached as an empty text
ReadFileWithCache_cachesabsent(m, n, d, filePath) ==
    LET cached == LRUGetRet(m, filePath)
        m1 == LRUGetMap(m, filePath)
    IN  IF cached.def
        THEN [map |-> m1, ret |-> cached, threw |-> FALSE, trace |-> <<"cache.get">>]
        ELSE IF ~ExistsSync(d, filePath)
        THEN [map |-> LRUSetMap(m1, n, filePath, <<>>), ret |-> Undefined,
              threw |-> FALSE, trace |-> <<"cache.get", "existsSync">>]
        ELSE [map |-> LRUSetMap(m1, n, filePath, ReadFileSync(d, filePath).text),
              ret |-> Def(ReadFileSync(d, filePath).text), threw |-> FALSE,
              trace |-> <<"cache.get", "existsSync", "readFileSync", "cache.set">>]

\* mutant of ReadFileWithCache: the text is cached lower-cased
ReadFileWithCache_storeslower(m, n, d, filePath) ==
    LET cached == LRUGetRet(m, filePath)
        m1 == LRUGetMap(m, filePath)
    IN  IF cached.def
        THEN [map |-> m1, ret |-> cached, threw |-> FALSE, trace |-> <<"cache.get">>]
        ELSE IF ~ExistsSync(d, filePath)
        THEN [map |-> m1, ret |-> Undefined, threw |-> FALSE,
              trace |-> <<"cache.get", "existsSync">>]
        ELSE [map |-> LRUSetMap(m1, n, filePath, ToLowerCase(ReadFileSync(d, filePath).text)),
              ret |-> Def(ReadFileSync(d, filePath).text), threw |-> FALSE,
              trace |-> <<"cache.get", "existsSync", "readFileSync", "cache.set">>]

\* mutant of ReadFileWithCache: the text read is returned but never cached
ReadFileWithCache_nostore(m, n, d, filePath) ==
    LET cached == LRUGetRet(m, filePath)
        m1 == LRUGetMap(m, filePath)
    IN  IF cached.def
        THEN [map |-> m1, ret |-> cached, threw |-> FALSE, trace |-> <<"cache.get">>]
        ELSE IF ~ExistsSync(d, filePath)
        THEN [map |-> m1, ret |-> Undefined, threw |-> FALSE,
              trace |-> <<"cache.get", "existsSync">>]
        ELSE [map |-> m1, ret |-> Def(ReadFileSync(d, filePath).text), threw |-> FALSE,
              trace |-> <<"cache.get", "existsSync", "readFileSync">>]

\* readFileWithCache(filePath, cache): the cache afterwards, the value returned
\* (or that the call threw) and the cache and file-system calls made
ReadFileWithCache(m, n, d, filePath) ==
    LET cached == LRUGetRet(m, filePath)
        m1 == LRUGetMap(m, filePath)
    IN  IF cached.def
        THEN [map |-> m1, ret |-> cached, threw |-> FALSE, trace |-> <<"cache.get">>]
        ELSE IF ~ExistsSync(d, filePath)
        THEN [map |-> m1, ret |-> Undefined, threw |-> FALSE,
              trace |-> <<"cache.get", "existsSync">>]
        ELSE LET content == ReadFileSync(d, filePath)
             IN  IF content.threw
                 THEN [map |-> m1, ret |-> Undefined, threw |-> TRUE,
                       trace |-> <<"cache.get", "existsSync", "readFileSync">>]
                 ELSE [map |-> LRUSetMap(m1, n, filePath, content.text),
                       ret |-> Def(content.text), threw |-> FALSE,
                       trace |-> <<"cache.get", "existsSync", "readFileSync",
                                   "cache.set">>]

----------------------------------------------------------------------------
(* getComponentDoc *)

\* the suggestion limit of slice(0, 5)
SuggestionLimit == 5

\* mutant of FindEntry: exact name only, the lower-cased alternative dropped
FindEntry_exact(idx, name) ==
    LET hits == {i \in 1 .. Len(idx) : idx[i].name = name}
    IN  IF hits = {} THEN 0 ELSE CHOOSE i \in hits : \A j \in hits : i <= j

\* index.find((e) => e.name === name || e.name === name.toLowerCase()):
\* the position of the first such entry, 0 when there is none
FindEntry(idx, name) ==
    LET lower == ToLowerCase(name)
        hits == {i \in 1 .. Len(idx) : idx[i].name = name \/ idx[i].name = lower}
    IN  IF hits = {} THEN 0 ELSE CHOOSE i \in hits : \A j \in hits : i <= j

\* `${e.name} (${e.title})`
SuggestionLabel(e) == e.name \o <<" (">> \o e.title \o <<")">>

\* .map((e) => `${e.name} (${e.title})`)
SuggestionLabels(entries) ==
    [i \in 1 .. Len(entries) |-> SuggestionLabel(entries[i])]

\* mutant of Suggestions: the slice(0, 5) dropped
Suggestions_unsliced(idx, name) ==
    LET q == ToLowerCase(name)
    IN  SuggestionLabels(SelectSeq(idx, LAMBDA e :
                    Includes(e.name, q) \/ Includes(ToLowerCase(e.title), q)))

\* index.filter(...).map(...).slice(0, 5)
Suggestions(idx, name) ==
    LET q == ToLowerCase(name)
    IN  SliceFirst(SuggestionLabels(SelectSeq(idx, LAMBDA e :
                              Includes(e.name, q) \/ Includes(ToLowerCase(e.title), q))),
                   SuggestionLimit)

\* the literal chunks of the templates, accents and the em dash written in ASCII
NotFoundHead == <<"Composant \"">>
NotFoundMid == <<"\" non trouve.">>
SuggestionsHead == <<" Suggestions : ">>
NotFoundTail == <<"\nUtilisez list_components pour voir la liste complete.">>

\* mutant of NotFoundText: the suggestion clause is written even when empty
NotFoundText_alwaysclause(name, suggestions) ==
    NotFoundHead \o name \o NotFoundMid
        \o SuggestionsHead \o Join(suggestions, <<", ">>)
        \o NotFoundTail

\* the not-found text
NotFoundText(name, suggestions) ==
    NotFoundHead \o name \o NotFoundMid
        \o (IF Len(suggestions) > 0
            THEN SuggestionsHead \o Join(suggestions, <<", ">>)
            ELSE <<>>)
        \o NotFoundTail

\* the text returned when the section is not in entry.sections
UnavailableText(section, entry) ==
    <<"Section \"">> \o section \o <<"\" non disponible pour ">> \o entry.name
        \o <<" (">> \o entry.title \o <<"). Sections disponibles : ">>
        \o Join(entry.sections, <<", ">>)

\* the text returned when the section's file is not on disk
MissingFileText(section, entry) ==
    <<"Section \"">> \o section \o <<"\" non disponible pour ">> \o entry.name
        \o <<" (">> \o entry.title \o <<"). Sections disponibles : ">>
        \o Join(entry.sections, <<", ">>)

\* the labeled document
DocumentText(section, entry, content) ==
    <<"# ">> \o entry.title \o <<" -- ">> \o section \o <<"\n\n">> \o content

\* getComponentDoc(index, docsDir, name, section, cache): the text returned, the
\* cache afterwards, which return statement was taken, and what readFileWithCache
\* returned to it
GetComponentDocResult(idx, docsDir, name, section, m, n, d) ==
    LET i == FindEntry(idx, name)
    IN  IF i = 0
        THEN [outcome |-> "notFound", entry |-> 0, path |-> <<>>, map |-> m,
              trace |-> <<>>, read |-> Undefined, text |-> NotFoundText(name, Suggestions(idx, name))]
        ELSE IF ~ArrayIncludes(idx[i].sections, section)
        THEN [outcome |-> "unavailable", entry |-> i, path |-> <<>>, map |-> m,
              trace |-> <<>>, read |-> Undefined, text |-> UnavailableText(section, idx[i])]
        ELSE LET filePath == SectionPath(docsDir, idx[i], section)
                 r == ReadFileWithCache(m, n, d, filePath)
             IN  IF r.threw
                 THEN [outcome |-> "threw", entry |-> i, path |-> filePath,
                       map |-> r.map, trace |-> r.trace, read |-> r.ret,
                       text |-> <<>>]
                 ELSE IF ~r.ret.def
                 THEN [outcome |-> "missingFile", entry |-> i, path |-> filePath,
                       map |-> r.map, trace |-> r.trace, read |-> r.ret,
                       text |-> MissingFileText(section, idx[i])]
                 ELSE [outcome |-> "ok", entry |-> i, path |-> filePath,
                       map |-> r.map, trace |-> r.trace, read |-> r.ret,
                       text |-> DocumentText(section, idx[i], r.ret.val)]

----------------------------------------------------------------------------
(* The server: an index and a docs directory as the extraction wrote them, *)
(* one shared cache, and the queries handled one after the other           *)

\* largest number of entries in the loaded index
MaxEntries == 7
\* largest capacity of the shared cache
MaxDocCap == 2

Entry(name, title, description, category, sections) ==
    [name |-> name, title |-> title, description |-> description,
     category |-> category, sections |-> sections]

Overview == <<"overview">>
Code == <<"code">>
Demo == <<"demo">>

\* the entries of the extracted index, sorted by name as the extraction sorts
\* them; names are lower-case directory names, titles come from the front matter
AllEntries ==
    << Entry(<<"a", "a">>, <<"a", "B">>, <<"b">>, <<"component">>, <<Overview>>),
       Entry(<<"a", "b">>, <<"A", "b">>, <<"c">>, <<"component">>, <<Overview, Code>>),
       Entry(<<"a", "b", "b">>, <<"b", "A">>, <<>>, <<"pattern">>, <<Overview>>),
       Entry(<<"b">>, <<"A">>, <<"a">>, <<"component">>, <<Code>>),
       Entry(<<"b", "a">>, <<"B", "a">>, <<"b">>, <<"core">>, <<Overview>>),
       Entry(<<"b", "a", "b">>, <<"b">>, <<"a">>, <<"layout">>, <<Overview>>),
       Entry(<<"b", "b">>, <<"B">>, <<"c">>, <<"layout">>, <<Overview>>),
       Entry(<<"c">>, <<"a", "b">>, <<"b">>, <<"component">>, <<Overview>>) >>

Indexes ==
    {SubSeq(AllEntries, 1, n) : n \in 0 .. Min(MaxEntries, Len(AllEntries))}

\* the text of the file the extraction copied for a section of an entry
FileText(entry, section) ==
    IF entry.name = <<"b">> THEN <<>>
    ELSE <<"<">> \o entry.name \o <<":">> \o section \o <<">">>
             \o (IF entry.category = <<"layout">> THEN <<"\n", "C", "a">> ELSE <<>>)

\* the (entry, section) positions of an index
EntrySections(idx) ==
    {<<i, j>> \in (1 .. Len(idx)) \X (1 .. 5) : j <= Len(idx[i].sections)}

\* files the index may promise although they are not on disk
MissingCandidates ==
    {SectionPath(DOCS_DIR, AllEntries[2], Code),
     SectionPath(DOCS_DIR, AllEntries[5], Overview)}

\* the docs directory: every declared file except the missing ones
DiskOf(idx, missing) ==
    LET files == {[path |-> SectionPath(DOCS_DIR, idx[p[1]], idx[p[1]].sections[p[2]]),
                   text |-> FileText(idx[p[1]], idx[p[1]].sections[p[2]])] :
                     p \in EntrySections(idx)}
        paths == {f.path : f \in files} \ missing
    IN  [q \in paths |-> (CHOOSE f \in files : f.path = q).text]

QueryNames ==
    {<<>>, <<"a">>, <<"A">>, <<"a", "b">>, <<"A", "B">>, <<"a", "B">>, <<"B">>,
     <<"c">>, <<"C">>, <<"b", "c">>, <<"B", "C">>, <<"b", "a">>, <<"B", "a">>}

QuerySections == {Overview, Code, Demo}

InitDoc ==
    /\ cstate = "ready"
    /\ maxSize \in 1 .. MaxDocCap
    /\ map = <<>>
    /\ lastOp = NoOp
    /\ prevOp = NoOp
    /\ ret = Undefined
    /\ tick = 0
    /\ lastUse = <<>>
    /\ pureSets = TRUE
    /\ index \in Indexes
    /\ \E missing \in SUBSET MissingCandidates : disk = DiskOf(index, missing)
    /\ call = NoCall
    /\ payload = <<>>
    /\ trace = <<>>
    /\ results = <<>>
    /\ reads = <<>>
    /\ icons = <<>>
    /\ scored = <<>>
    /\ limited = <<>>
    /\ colors = [decisionTokens |-> <<>>, families |-> <<>>, illustrativeNames |-> <<>>]
    /\ tokens = <<>>
    /\ colorSections = <<>>
    /\ ServerIdle

\* the get_component_doc handler: getComponentDoc(index, DOCS_DIR, name, section, cache)
GetComponentDoc(name, section) ==
    /\ cstate = "ready"
    /\ \E r \in {GetComponentDocResult(index, DOCS_DIR, name, section, map, maxSize, disk)} :
           /\ map' = r.map
           /\ payload' = r.text
           /\ trace' = r.trace
           /\ ret' = r.read
           /\ call' = [op |-> "getComponentDoc", name |-> name, section |-> section,
                       entry |-> r.entry, path |-> r.path, outcome |-> r.outcome]
    /\ UNCHANGED <<cstate, maxSize, index, disk, lastOp, prevOp, tick, lastUse, pureSets,
                   searchVars, iconVars, colorVars, serverVars>>

NextDoc ==
    \E name \in QueryNames, section \in QuerySections : GetComponentDoc(name, section)

SpecDoc == InitDoc /\ [][NextDoc]_vars

----------------------------------------------------------------------------
(* searchComponents *)

\* the number of characters kept on each side of the match in an excerpt
ExcerptRadius == 80

Max(a, b) == IF a > b THEN a ELSE b

\* String.prototype.indexOf: the 0-based position of the first occurrence, -1 if none
IndexOf(s, t) ==
    LET hits == {i \in 0 .. (Len(s) - Len(t)) : \A j \in 1 .. Len(t) : s[i + j] = t[j]}
    IN  IF hits = {} THEN 0 - 1 ELSE CHOOSE i \in hits : \A k \in hits : i <= k

\* .replace(/\n/g, " ")
ReplaceNewlines(s) == [i \in 1 .. Len(s) |-> IF s[i] = "\n" THEN " " ELSE s[i]]

\* mutant of Excerpt: the window ends 80 characters after the start of the match
Excerpt_shortend(content, q) ==
    LET idx == IndexOf(ToLowerCase(content), q)
        start == Max(0, idx - ExcerptRadius)
        end == Min(Len(content), idx + ExcerptRadius)
    IN  (IF start > 0 THEN <<"...">> ELSE <<>>)
            \o ReplaceNewlines(SubSeq(content, start + 1, end))
            \o (IF end < Len(content) THEN <<"...">> ELSE <<>>)

\* the excerpt around the first occurrence of q in content
Excerpt(content, q) ==
    LET idx == IndexOf(ToLowerCase(content), q)
        start == Max(0, idx - ExcerptRadius)
        end == Min(Len(content), idx + Len(q) + ExcerptRadius)
    IN  (IF start > 0 THEN <<"...">> ELSE <<>>)
            \o ReplaceNewlines(SubSeq(content, start + 1, end))
            \o (IF end < Len(content) THEN <<"...">> ELSE <<>>)

\* metaMatch: q is in the lower-cased name, title or description
MetaMatch(entry, q) ==
    \/ Includes(ToLowerCase(entry.name), q)
    \/ Includes(ToLowerCase(entry.title), q)
    \/ Includes(ToLowerCase(entry.description), q)

\* the SearchResult pushed on a metadata match
MetadataResult(entry) ==
    [name |-> entry.name, title |-> entry.title, category |-> entry.category,
     matchType |-> <<"metadata">>, excerpt |-> entry.description]

\* the SearchResult pushed on a content match
ContentResult(entry, section, content, q) ==
    [name |-> entry.name, title |-> entry.title, category |-> entry.category,
     matchType |-> <<"content (">> \o section \o <<")">>,
     excerpt |-> Excerpt(content, q)]

\* mutant of ScanSections: the sections are scanned from the last declared one
RECURSIVE ScanSections_lastfirst(_, _, _, _, _, _, _)
ScanSections_lastfirst(entry, docsDir, q, m, n, d, j) ==
    IF j > Len(entry.sections)
    THEN [map |-> m, reads |-> <<>>, trace |-> <<>>, results |-> <<>>]
    ELSE LET section == entry.sections[Len(entry.sections) + 1 - j]
             filePath == SectionPath(docsDir, entry, section)
             r == ReadFileWithCache(m, n, d, filePath)
         IN  IF r.ret.def /\ r.ret.val # <<>>
                  /\ IndexOf(ToLowerCase(r.ret.val), q) # 0 - 1
             THEN [map |-> r.map, reads |-> <<filePath>>, trace |-> r.trace,
                   results |-> <<ContentResult(entry, section, r.ret.val, q)>>]
             ELSE LET rest == ScanSections_lastfirst(entry, docsDir, q, r.map, n, d, j + 1)
                  IN  [map |-> rest.map, reads |-> <<filePath>> \o rest.reads,
                       trace |-> r.trace \o rest.trace, results |-> rest.results]

\* mutant of ScanSections: the break after the first matching section dropped
RECURSIVE ScanSections_nobreak(_, _, _, _, _, _, _)
ScanSections_nobreak(entry, docsDir, q, m, n, d, j) ==
    IF j > Len(entry.sections)
    THEN [map |-> m, reads |-> <<>>, trace |-> <<>>, results |-> <<>>]
    ELSE LET section == entry.sections[j]
             filePath == SectionPath(docsDir, entry, section)
             r == ReadFileWithCache(m, n, d, filePath)
             rest == ScanSections_nobreak(entry, docsDir, q, r.map, n, d, j + 1)
             hit == r.ret.def /\ r.ret.val # <<>>
                        /\ IndexOf(ToLowerCase(r.ret.val), q) # 0 - 1
         IN  [map |-> rest.map, reads |-> <<filePath>> \o rest.reads,
              trace |-> r.trace \o rest.trace,
              results |-> (IF hit THEN <<ContentResult(entry, section, r.ret.val, q)>>
                           ELSE <<>>) \o rest.results]

\* the loop over entry.sections from its j-th section on: the cache afterwards,
\* the paths read, the cache and file-system calls made and the result pushed
RECURSIVE ScanSections(_, _, _, _, _, _, _)
ScanSections(entry, docsDir, q, m, n, d, j) ==
    IF j > Len(entry.sections)
    THEN [map |-> m, reads |-> <<>>, trace |-> <<>>, results |-> <<>>]
    ELSE LET section == entry.sections[j]
             filePath == SectionPath(docsDir, entry, section)
             r == ReadFileWithCache(m, n, d, filePath)
         IN  IF r.ret.def /\ r.ret.val # <<>>
                  /\ IndexOf(ToLowerCase(r.ret.val), q) # 0 - 1
             THEN [map |-> r.map, reads |-> <<filePath>>, trace |-> r.trace,
                   results |-> <<ContentResult(entry, section, r.ret.val, q)>>]
             ELSE LET rest == ScanSections(entry, docsDir, q, r.map, n, d, j + 1)
                  IN  [map |-> rest.map, reads |-> <<filePath>> \o rest.reads,
                       trace |-> r.trace \o rest.trace, results |-> rest.results]

\* mutant of SearchEntry: the continue after a metadata match dropped
SearchEntry_nocontinue(entry, docsDir, q, m, n, d) ==
    LET scan == ScanSections(entry, docsDir, q, m, n, d, 1)
    IN  IF MetaMatch(entry, q)
        THEN [scan EXCEPT !.results = <<MetadataResult(entry)>> \o scan.results]
        ELSE scan

\* one iteration of the loop over the index
SearchEntry(entry, docsDir, q, m, n, d) ==
    IF MetaMatch(entry, q)
    THEN [map |-> m, reads |-> <<>>, trace |-> <<>>,
          results |-> <<MetadataResult(entry)>>]
    ELSE ScanSections(entry, docsDir, q, m, n, d, 1)

\* mutant of PushResults: results.unshift instead of results.push
PushResults_unshift(acc, new) == new \o acc

\* results.push
PushResults(acc, new) == acc \o new

\* the loop over the index from its i-th entry on; acc is the cache, the paths
\* read, the calls made and the results pushed so far
RECURSIVE SearchLoop(_, _, _, _, _, _, _)
SearchLoop(idx, docsDir, q, n, d, i, acc) ==
    IF i > Len(idx) THEN acc
    ELSE LET one == SearchEntry(idx[i], docsDir, q, acc.map, n, d)
         IN  SearchLoop(idx, docsDir, q, n, d, i + 1,
                        [map |-> one.map, reads |-> acc.reads \o one.reads,
                         trace |-> acc.trace \o one.trace,
                         results |-> PushResults(acc.results, one.results)])

\* `- **${r.name}** (${r.title}) [${r.category}] -- ${r.matchType}\n  ${r.excerpt}`
ResultLine(r) ==
    <<"- **">> \o r.name \o <<"** (">> \o r.title \o <<") [">> \o r.category
        \o <<"] -- ">> \o r.matchType \o <<"\n  ">> \o r.excerpt

\* results.map((r) => ...)
ResultLines(rs) == [i \in 1 .. Len(rs) |-> ResultLine(rs[i])]

\* the text returned when results is empty
NoResultsText(query) ==
    <<"Aucun resultat pour \"">> \o query
        \o <<"\". Essayez un autre terme ou utilisez list_components pour voir tous les composants.">>

\* the text returned otherwise
ResultsText(rs, query) ==
    <<ToString(Len(rs))>> \o <<" resultat(s) pour \"">> \o query \o <<"\" :\n\n">>
        \o Join(ResultLines(rs), <<"\n\n">>)

\* searchComponents(index, docsDir, query, cache): the text returned, the cache
\* afterwards, the results pushed, the paths read and the calls made
SearchComponentsResult(idx, docsDir, query, m, n, d) ==
    LET q == ToLowerCase(query)
        done == SearchLoop(idx, docsDir, q, n, d, 1,
                           [map |-> m, reads |-> <<>>, trace |-> <<>>, results |-> <<>>])
    IN  [map |-> done.map, reads |-> done.reads, trace |-> done.trace,
         results |-> done.results,
         text |-> IF Len(done.results) = 0 THEN NoResultsText(query)
                  ELSE ResultsText(done.results, query)]

\* the queries handed to search_components
SearchQueries ==
    {<<>>, <<"a">>, <<"A">>, <<"c">>, <<"b", ":">>, <<"a", ":">>, <<"code">>,
     <<":">>, <<"b", "c">>}

\* the search_components handler: searchComponents(index, DOCS_DIR, query, cache)
SearchComponents(query) ==
    /\ cstate = "ready"
    /\ \E r \in {SearchComponentsResult(index, DOCS_DIR, query, map, maxSize, disk)} :
           /\ map' = r.map
           /\ payload' = r.text
           /\ trace' = r.trace
           /\ results' = r.results
           /\ reads' = r.reads
    /\ call' = [NoCall EXCEPT !.op = "searchComponents", !.name = query]
    /\ ret' = Undefined
    /\ UNCHANGED <<cstate, maxSize, index, disk, lastOp, prevOp, tick, lastUse, pureSets,
                   iconVars, colorVars, serverVars>>

NextSearch == \E query \in SearchQueries : SearchComponents(query)

SpecSearch == InitDoc /\ [][NextSearch]_vars

----------------------------------------------------------------------------
(* searchIcons *)

\* the number of icons kept by slice(0, 20)
IconLimit == 20

\* largest number of icons of one category in the loaded icons list
MaxIconsPerCategory == 8

Icon(name, category, variants, classes) ==
    [name |-> name, category |-> category, variants |-> variants, classes |-> classes]

\* the icon the extraction writes for the files of one base name: one class per
\* file, `fr-icon-${raw}`, variants and classes sorted
ExtractedIcon(name, category, variants) ==
    Icon(name, category, [i \in 1 .. Len(variants) |-> <<variants[i]>>],
         IF Len(variants) = 0 THEN << <<"fr-icon-">> \o name >>
         ELSE [i \in 1 .. Len(variants) |->
                  <<"fr-icon-">> \o name \o <<"-" \o variants[i]>>])

Arrows == <<"arrows">>
System == <<"system">>
User == <<"user">>
Weather == <<"weather">>

\* the base names of three icon directories, each sorted by name
ArrowNames ==
    << <<"a">>, <<"a", "-", "b">>, <<"a", "a">>, <<"a", "b">>, <<"a", "b", "a">>,
       <<"b">>, <<"b", "-", "a">>, <<"b", "a">>, <<"b", "a", "b">> >>
SystemNames ==
    << <<"a">>, <<"a", "1">>, <<"a", "a", "b">>, <<"a", "b", "b">>, <<"a", "c">>,
       <<"b", "1">>, <<"c", "a">>, <<"c", "a", "b">>, <<"c", "b">> >>
UserNames ==
    << <<"a", "-", "a">>, <<"a", "a", "a">>, <<"a", "b", "c">>, <<"a", "c">>,
       <<"b", "a", "a">>, <<"b", "b", "a">>, <<"c">>, <<"c", "a">>, <<"c", "c">> >>

\* the variants of an icon: none for a one-letter name, fill only for a name
\* with a digit or a hyphen, fill and line otherwise
VariantsOf(name) ==
    IF Len(name) = 1 THEN <<>>
    ELSE IF \E i \in 1 .. Len(name) : name[i] \in {"-", "1"} THEN <<"fill">>
    ELSE <<"fill", "line">>

IconsOfCategory(names, category, k) ==
    [i \in 1 .. Min(k, Len(names)) |-> ExtractedIcon(names[i], category, VariantsOf(names[i]))]

\* icons.json with k icons per category, sorted by category and then by name
IconsOf(k) ==
    IconsOfCategory(ArrowNames, Arrows, k) \o IconsOfCategory(SystemNames, System, k)
        \o IconsOfCategory(UserNames, User, k)

IconLists == {IconsOf(k) : k \in 0 .. MaxIconsPerCategory}

\* the rank of a character in the collation order localeCompare uses
CharRank(c) ==
    CASE c = "-" -> 0
      [] c = "1" -> 1
      [] c = "a" -> 2
      [] c = "b" -> 3
      [] c = "c" -> 4
      [] OTHER -> 5

\* String.prototype.localeCompare: negative, zero or positive
RECURSIVE LocaleCompare(_, _)
LocaleCompare(a, b) ==
    IF Len(a) = 0 THEN (IF Len(b) = 0 THEN 0 ELSE 0 - 1)
    ELSE IF Len(b) = 0 THEN 1
    ELSE IF CharRank(a[1]) < CharRank(b[1]) THEN 0 - 1
    ELSE IF CharRank(a[1]) > CharRank(b[1]) THEN 1
    ELSE LocaleCompare(Tail(a), Tail(b))

\* String.prototype.startsWith
StartsWith(s, t) == Len(t) <= Len(s) /\ \A j \in 1 .. Len(t) : s[j] = t[j]

\* mutant of LowerQuery: the query is used as typed
LowerQuery_astyped(query) == query

\* const q = query.toLowerCase()
LowerQuery(query) == ToLowerCase(query)

\* mutant of CategoryFilter: the filter dropped
CategoryFilter_none(list, category) == list

\* candidates: the icons of the category when a (truthy) category is given
CategoryFilter(list, category) ==
    IF category.def /\ category.val # <<>>
    THEN SelectSeq(list, LAMBDA i : i.category = category.val)
    ELSE list

\* mutant of IconScore: the test of the class strings dropped
IconScore_noclasses(icon, q) ==
    LET name == ToLowerCase(icon.name)
    IN  IF name = q THEN 3
        ELSE IF StartsWith(name, q) THEN 2
        ELSE IF Includes(name, q) THEN 1
        ELSE 0

\* the score of one candidate
IconScore(icon, q) ==
    LET name == ToLowerCase(icon.name)
    IN  IF name = q THEN 3
        ELSE IF StartsWith(name, q) THEN 2
        ELSE IF Includes(name, q) THEN 1
        ELSE IF \E c \in 1 .. Len(icon.classes) : Includes(ToLowerCase(icon.classes[c]), q)
             THEN 1
        ELSE 0

\* the loop over the candidates: those of positive score, in list order
RECURSIVE ScoreLoop(_, _, _)
ScoreLoop(candidates, q, i) ==
    IF i > Len(candidates) THEN <<>>
    ELSE LET score == IconScore(candidates[i], q)
         IN  (IF score > 0 THEN <<[icon |-> candidates[i], score |-> score]>> ELSE <<>>)
                 \o ScoreLoop(candidates, q, i + 1)

\* mutant of CompareScored: by name only
CompareScored_nameonly(a, b) == LocaleCompare(a.icon.name, b.icon.name)

\* (a, b) => b.score - a.score || a.icon.name.localeCompare(b.icon.name)
CompareScored(a, b) ==
    IF b.score - a.score # 0 THEN b.score - a.score
    ELSE LocaleCompare(a.icon.name, b.icon.name)

\* x put into a sorted array behind every element that does not come after it
InsertSorted(sorted, x) ==
    LET before == {i \in 1 .. Len(sorted) : CompareScored(sorted[i], x) <= 0}
        n == IF before = {} THEN 0
             ELSE CHOOSE i \in before : \A j \in before : j <= i
    IN  SubSeq(sorted, 1, n) \o <<x>> \o SubSeq(sorted, n + 1, Len(sorted))

\* Array.prototype.sort with CompareScored: a stable sort
RECURSIVE SortScored(_)
SortScored(arr) ==
    IF Len(arr) = 0 THEN <<>>
    ELSE InsertSorted(SortScored(SubSeq(arr, 1, Len(arr) - 1)), arr[Len(arr)])

\* scored.slice(0, 20)
Limited(sorted) == SliceFirst(sorted, IconLimit)

ICON_CATEGORIES ==
    << <<"arrows">>, <<"buildings">>, <<"business">>, <<"communication">>, <<"design">>,
       <<"development">>, <<"device">>, <<"document">>, <<"editor">>, <<"finance">>,
       <<"health">>, <<"logo">>, <<"map">>, <<"media">>, <<"others">>, <<"system">>,
       <<"user">>, <<"weather">> >>

\* the text returned when no icon is kept
NoIconsText(query, category) ==
    <<"Aucune icone trouvee pour \"">> \o query \o <<"\". ">>
        \o (IF category.def /\ category.val # <<>>
            THEN <<"Categorie \"">> \o category.val \o <<"\" filtree.">>
            ELSE <<"Categories disponibles : ">> \o Join(ICON_CATEGORIES, <<", ">>))

\* one line of the listing
IconLine(icon) ==
    <<"- **">> \o icon.name \o <<"** [">> \o icon.category \o <<"] -- ">>
        \o (IF Len(icon.variants) > 0 THEN Join(icon.variants, <<", ">>)
            ELSE <<"sans variante">>)
        \o <<"\n  Classes : ">> \o Join(icon.classes, <<", ">>)

\* the text returned otherwise
IconsText(kept, query, category) ==
    <<ToString(Len(kept))>> \o <<" icone(s) trouvee(s) pour \"">> \o query \o <<"\"">>
        \o (IF category.def /\ category.val # <<>>
            THEN <<" dans \"">> \o category.val \o <<"\"">> ELSE <<>>)
        \o <<" :\n\n">>
        \o Join([i \in 1 .. Len(kept) |-> IconLine(kept[i].icon)], <<"\n">>)

\* searchIcons(icons, query, category): the scored array after the loop, the
\* array kept after sort and slice, and the text returned
SearchIconsResult(list, query, category) ==
    LET q == LowerQuery(query)
        sc == ScoreLoop(CategoryFilter(list, category), q, 1)
        kept == Limited(SortScored(sc))
    IN  [scored |-> sc, limited |-> kept,
         text |-> IF Len(kept) = 0 THEN NoIconsText(query, category)
                  ELSE IconsText(kept, query, category)]

\* the arguments handed to search_icons: the category is one of the enum or absent
IconQueries ==
    {<<>>, <<"a">>, <<"A">>, <<"a", "b">>, <<"A", "B">>, <<"a", "B">>, <<"c">>,
     <<"b", "-fill">>, <<"B", "-fill">>, <<"fr-icon-", "a">>, <<"-line">>, <<"b", "c", "a">>}
IconCategories == {Undefined, Def(Arrows), Def(System), Def(User), Def(Weather)}

InitIcons ==
    /\ cstate = "ready"
    /\ maxSize = 1
    /\ map = <<>>
    /\ lastOp = NoOp
    /\ prevOp = NoOp
    /\ ret = Undefined
    /\ tick = 0
    /\ lastUse = <<>>
    /\ pureSets = TRUE
    /\ index = <<>>
    /\ disk = <<>>
    /\ call = NoCall
    /\ payload = <<>>
    /\ trace = <<>>
    /\ results = <<>>
    /\ reads = <<>>
    /\ icons \in IconLists
    /\ scored = <<>>
    /\ limited = <<>>
    /\ colors = [decisionTokens |-> <<>>, families |-> <<>>, illustrativeNames |-> <<>>]
    /\ tokens = <<>>
    /\ colorSections = <<>>
    /\ ServerIdle

\* mutant of SearchIcons: the matching icons are written back to the loaded list
SearchIcons_writesback(query, category) ==
    /\ cstate = "ready"
    /\ \E r \in {SearchIconsResult(icons, query, category)} :
           /\ scored' = r.scored
           /\ limited' = r.limited
           /\ payload' = r.text
           /\ icons' = [i \in 1 .. Len(r.limited) |-> r.limited[i].icon]
    /\ call' = [op |-> "searchIcons", query |-> query, category |-> category]
    /\ UNCHANGED <<cstate, maxSize, map, lastOp, prevOp, ret, tick, lastUse, pureSets,
                   index, disk, trace, searchVars, colorVars, serverVars>>

\* the search_icons handler: searchIcons(icons, query, category)
SearchIcons(query, category) ==
    /\ cstate = "ready"
    /\ \E r \in {SearchIconsResult(icons, query, category)} :
           /\ scored' = r.scored
           /\ limited' = r.limited
           /\ payload' = r.text
    /\ call' = [op |-> "searchIcons", query |-> query, category |-> category]
    /\ UNCHANGED <<cstate, maxSize, map, lastOp, prevOp, ret, tick, lastUse, pureSets,
                   index, disk, trace, searchVars, icons, colorVars, serverVars>>

NextIcons == \E query \in IconQueries, category \in IconCategories : SearchIcons(query, category)

SpecIcons == InitIcons /\ [][NextIcons]_vars

----------------------------------------------------------------------------
(* getColorTokens *)

\* largest number of decision tokens and of families in the loaded ColorsIndex
MaxTokens == 6
MaxFamilies == 4

Background == <<"background">>
Text == <<"text">>
Artwork == <<"artwork">>

DecisionToken(token, context, description, light, dark) ==
    [token |-> token, context |-> context, description |-> description,
     light |-> light, dark |-> dark]

\* correspondences keeps the insertion order of its keys, as Object.entries does
Family(name, category, correspondences) ==
    [name |-> name, category |-> category, correspondences |-> correspondences]

Correspondence(key, light, dark) == [key |-> key, light |-> light, dark |-> dark]

\* the rows of the color tables, in document order
AllDecisionTokens ==
    << DecisionToken(<<"$", "a", "-", "b", "-", "c">>, Background, <<"A", "b">>, <<"$l1">>, <<"$d1">>),
       DecisionToken(<<"$", "a", "-", "b">>, Text, <<"c">>, <<"$l2">>, <<"$d2">>),
       DecisionToken(<<"$", "c">>, Background, <<"B", " ", "a">>, <<"$l3">>, <<"$d3">>),
       DecisionToken(<<"$", "b", "-", "c">>, Text, <<"A">>, <<"$l4">>, <<"$d4">>),
       DecisionToken(<<"$", "c", "-", "a">>, Artwork, <<"b">>, <<"$l5">>, <<"$d5">>),
       DecisionToken(<<"$", "b", "b">>, Background, <<"C", "b">>, <<"$l6">>, <<"$d6">>),
       DecisionToken(<<"$", "b">>, Artwork, <<>>, <<"$l7">>, <<"$d7">>) >>

\* the families of the palette, in document order
AllFamilies ==
    << Family(<<"b", "-", "c">>, <<"p", "r", "i", "m", "a", "i", "r", "e">>,
              << Correspondence(<<"strong">>, <<"$l1">>, <<"$d1">>),
                 Correspondence(<<"hover">>, <<"$l2">>, <<"$d2">>) >>),
       Family(<<"c">>, <<"n", "e", "u", "t", "r", "e">>,
              << Correspondence(<<"strong">>, <<"$l3">>, <<"$d3">>) >>),
       Family(<<"b", "a">>, <<"i", "l", "l", "u", "s", "t", "r", "a", "t", "i", "v", "e">>,
              << Correspondence(<<"softest">>, <<"$l4">>, <<"$d4">>),
                 Correspondence(<<"light">>, <<"$l5">>, <<"$d5">>),
                 Correspondence(<<"lighter">>, <<"$l6">>, <<"$d6">>) >>),
       Family(<<"a", "b">>, <<"s", "y", "s", "t", "e", "m", "e">>,
              << Correspondence(<<"strong">>, <<"$l7">>, <<"$d7">>) >>),
       Family(<<"c", "-", "b">>, <<"i", "l", "l", "u", "s", "t", "r", "a", "t", "i", "v", "e">>,
              << Correspondence(<<"softest">>, <<"$l8">>, <<"$d8">>) >>) >>

\* colors.json with the first nt rows and the first nf families
ColorsOf(nt, nf) ==
    LET fams == SubSeq(AllFamilies, 1, Min(nf, Len(AllFamilies)))
        illustrative == SelectSeq(fams, LAMBDA f : f.category[1] = "i")
    IN  [decisionTokens |-> SubSeq(AllDecisionTokens, 1, Min(nt, Len(AllDecisionTokens))),
         families |-> fams,
         illustrativeNames |-> [i \in 1 .. Len(illustrative) |-> illustrative[i].name]]

ColorsIndexes == {ColorsOf(nt, nf) : nt \in 0 .. MaxTokens, nf \in 0 .. MaxFamilies}

\* the truthiness of an optional string: given and not empty
Truthy(x) == x.def /\ x.val # <<>>

\* mutant of Distinct: the array as it is, without new Set
Distinct_all(arr) == arr

\* [...new Set(arr)]: the first occurrence of each element, in order
Distinct(arr) ==
    LET firsts == {i \in 1 .. Len(arr) : \A j \in 1 .. (i - 1) : arr[j] # arr[i]}
    IN  [k \in 1 .. Cardinality(firsts) |->
            arr[CHOOSE i \in firsts : Cardinality({j \in firsts : j < i}) = k - 1]]

\* the text returned when no filter is given
SummaryText(c) ==
    <<"Tokens de couleur DSFR disponibles :\n\n**Contextes :** ">>
        \o Join(Distinct([i \in 1 .. Len(c.decisionTokens) |-> c.decisionTokens[i].context]),
                <<", ">>)
        \o <<"\n**Familles :** ">>
        \o Join([i \in 1 .. Len(c.families) |->
                    c.families[i].name \o <<" (">> \o c.families[i].category \o <<")">>],
                <<", ">>)
        \o <<"\n**Couleurs illustratives :** ">>
        \o Join(c.illustrativeNames, <<", ">>)
        \o <<"\n\nUtilisez les parametres context, usage ou family pour filtrer.">>

\* mutant of UsageMatches: the description is not looked at
UsageMatches_tokenonly(t, u) == Includes(ToLowerCase(t.token), u)

\* the usage filter on one token
UsageMatches(t, u) ==
    Includes(ToLowerCase(t.token), u) \/ Includes(ToLowerCase(t.description), u)

\* the three filters applied in turn to colors.decisionTokens
FilterTokens(c, context, usage, family) ==
    LET t0 == c.decisionTokens
        t1 == IF Truthy(context)
              THEN SelectSeq(t0, LAMBDA t : t.context = context.val) ELSE t0
        t2 == IF Truthy(usage)
              THEN SelectSeq(t1, LAMBDA t : UsageMatches(t, ToLowerCase(usage.val))) ELSE t1
    IN  IF Truthy(family)
        THEN SelectSeq(t2, LAMBDA t : Includes(ToLowerCase(t.token), ToLowerCase(family.val)))
        ELSE t2

\* one rendered token, the backquotes around the identifier written as quotes
TokenLine(t) ==
    <<"- '">> \o t.token \o <<"'\n  ">> \o t.description \o <<"\n  Clair : ">> \o t.light
        \o <<" | Sombre : ">> \o t.dark

\* the decision-token section
TokenSection(ts) ==
    <<"### Tokens de decision\n">> \o Join([i \in 1 .. Len(ts) |-> TokenLine(ts[i])], <<"\n">>)

\* mutant of FamilyMatches: the category is not looked at
FamilyMatches_nameonly(fam, f) == Includes(ToLowerCase(fam.name), f)

\* the family filter on one family
FamilyMatches(fam, f) ==
    Includes(ToLowerCase(fam.name), f) \/ Includes(ToLowerCase(fam.category), f)

\* matched: the families rendered, none when family is not given
MatchedFamilies(c, family) ==
    IF Truthy(family)
    THEN SelectSeq(c.families, LAMBDA fam : FamilyMatches(fam, ToLowerCase(family.val)))
    ELSE <<>>

\* one line of a correspondence table
CorrLine(corr) ==
    <<"  ">> \o corr.key \o <<" : ">> \o corr.light \o <<" (clair) / ">> \o corr.dark
        \o <<" (sombre)">>

\* the section of one family
FamilySection(fam) ==
    <<"### Famille \"">> \o fam.name \o <<"\" (">> \o fam.category \o <<")\n">>
        \o Join([i \in 1 .. Len(fam.correspondences) |-> CorrLine(fam.correspondences[i])],
                <<"\n">>)

\* the text returned when sections is empty
NoTokensText(c, context, usage, family) ==
    LET parts == (IF Truthy(context) THEN << <<"context=\"">> \o context.val \o <<"\"">> >>
                  ELSE <<>>)
                 \o (IF Truthy(usage) THEN << <<"usage=\"">> \o usage.val \o <<"\"">> >>
                     ELSE <<>>)
                 \o (IF Truthy(family) THEN << <<"family=\"">> \o family.val \o <<"\"">> >>
                     ELSE <<>>)
    IN  <<"Aucun token trouve pour ">> \o Join(parts, <<", ">>)
            \o <<". Contextes disponibles : background, text, artwork. Familles : ">>
            \o Join([i \in 1 .. Len(c.families) |-> c.families[i].name], <<", ">>)

\* mutant of BuildSections: the family sections pushed before the token section
BuildSections_familiesfirst(ts, fams) ==
    [i \in 1 .. Len(fams) |-> FamilySection(fams[i])]
        \o (IF Len(ts) > 0 THEN <<TokenSection(ts)>> ELSE <<>>)

\* sections: the decision-token section when tokens are left, then one section
\* per matched family
BuildSections(ts, fams) ==
    (IF Len(ts) > 0 THEN <<TokenSection(ts)>> ELSE <<>>)
        \o [i \in 1 .. Len(fams) |-> FamilySection(fams[i])]

\* getColorTokens(colors, {context, usage, family}): which return statement was
\* taken, the tokens and families rendered, the sections and the text returned
GetColorTokensResult(c, context, usage, family) ==
    IF ~Truthy(context) /\ ~Truthy(usage) /\ ~Truthy(family)
    THEN [outcome |-> "summary", tokens |-> <<>>, matched |-> <<>>, sections |-> <<>>,
          text |-> SummaryText(c)]
    ELSE LET ts == FilterTokens(c, context, usage, family)
             fams == MatchedFamilies(c, family)
             secs == BuildSections(ts, fams)
         IN  [outcome |-> IF Len(secs) = 0 THEN "none" ELSE "sections",
              tokens |-> ts, matched |-> fams, sections |-> secs,
              text |-> IF Len(secs) = 0 THEN NoTokensText(c, context, usage, family)
                       ELSE Join(secs, <<"\n\n">>)]

\* the arguments handed to get_color_tokens: context is one of the enum or
\* absent, usage and family are any string or absent
ColorContexts == {Undefined, Def(Background), Def(Text), Def(Artwork)}
ColorUsages == {Undefined, Def(<<>>), Def(<<"a">>), Def(<<"A">>), Def(<<"b", "-">>),
                Def(<<"c", "c">>)}
ColorFamilies == {Undefined, Def(<<>>), Def(<<"a">>), Def(<<"B">>), Def(<<"b", "-", "c">>),
                  Def(<<"c", "c">>)}

InitColors ==
    /\ cstate = "ready"
    /\ maxSize = 1
    /\ map = <<>>
    /\ lastOp = NoOp
    /\ prevOp = NoOp
    /\ ret = Undefined
    /\ tick = 0
    /\ lastUse = <<>>
    /\ pureSets = TRUE
    /\ index = <<>>
    /\ disk = <<>>
    /\ call = NoCall
    /\ payload = <<>>
    /\ trace = <<>>
    /\ results = <<>>
    /\ reads = <<>>
    /\ icons = <<>>
    /\ scored = <<>>
    /\ limited = <<>>
    /\ colors \in ColorsIndexes
    /\ tokens = <<>>
    /\ colorSections = <<>>
    /\ ServerIdle

\* the get_color_tokens handler: getColorTokens(colors, {context, usage, family})
GetColorTokens(context, usage, family) ==
    /\ cstate = "ready"
    /\ \E r \in {GetColorTokensResult(colors, context, usage, family)} :
           /\ tokens' = r.tokens
           /\ colorSections' = r.sections
           /\ payload' = r.text
           /\ call' = [op |-> "getColorTokens", context |-> context, usage |-> usage,
                       family |-> family, outcome |-> r.outcome]
    /\ UNCHANGED <<cstate, maxSize, map, lastOp, prevOp, ret, tick, lastUse, pureSets,
                   index, disk, trace, searchVars, iconVars, colors, serverVars>>

NextColors ==
    \E context \in ColorContexts, usage \in ColorUsages, family \in ColorFamilies :
        GetColorTokens(context, usage, family)

SpecColors == InitColors /\ [][NextColors]_vars

----------------------------------------------------------------------------
(* get_component_doc and search_components on the one shared cache *)

\* names and sections asked of get_component_doc, and queries of
\* search_components, between which the cache is shared
SharedNames == {<<"a">>, <<"a", "b">>, <<"b", "a", "b">>, <<"C">>}

SharedSections == {Overview, Code}

SharedQueries == {<<":">>, <<"code">>, <<"c">>, <<"b", ":">>}

NextQueries ==
    \/ \E name \in SharedNames, section \in SharedSections : GetComponentDoc(name, section)
    \/ \E query \in SharedQueries : SearchComponents(query)

SpecQueries == InitDoc /\ [][NextQueries]_vars

----------------------------------------------------------------------------
(* The process: module top level of index.ts, then the five tool handlers *)

\* the capacity the server constructs its cache with
CacheCapacity == 50

IndexFile == "index.json"
IconsFile == "icons.json"
ColorsFile == "colors.json"

\* join(docsDir, "index.json") and the like
ArtifactPath(docsDir, file) == docsDir \o <<"/">> \o <<file>>

\* the beginning of a loader's error message
NotFoundPrefix(file) ==
    CASE file = IndexFile -> <<"Documentation index not found at ">>
      [] file = IconsFile -> <<"Icons index not found at ">>
      [] file = ColorsFile -> <<"Colors index not found at ">>

\* the end of it: the regeneration command
FetchDocsHint == <<". Run \"pnpm run fetch-docs\" first.">>

\* mutant of LoadArtifact: a missing artifact loads as an empty one
LoadArtifact_lenient(a, docsDir, file) ==
    IF ~a[file].def
    THEN [threw |-> FALSE, value |-> <<>>, message |-> <<>>]
    ELSE [threw |-> FALSE, value |-> a[file].val, message |-> <<>>]

\* loadIndex, loadIcons, loadColors: the parsed artifact, or the error thrown
LoadArtifact(a, docsDir, file) ==
    IF ~a[file].def
    THEN [threw |-> TRUE, value |-> <<>>,
          message |-> NotFoundPrefix(file) \o ArtifactPath(docsDir, file) \o FetchDocsHint]
    ELSE [threw |-> FALSE, value |-> a[file].val, message |-> <<>>]

\* what the extraction wrote to the three artifacts
ServedIndex == SubSeq(AllEntries, 1, 2)
ServedIcons == IconsOf(2)
ServedColors == ColorsOf(2, 2)

\* the docs directory: each artifact is there or not
ArtifactSets ==
    {[f \in {IndexFile, IconsFile, ColorsFile} |->
        IF f \notin present THEN Undefined
        ELSE IF f = IndexFile THEN Def(ServedIndex)
        ELSE IF f = IconsFile THEN Def(ServedIcons)
        ELSE Def(ServedColors)] : present \in SUBSET {IndexFile, IconsFile, ColorsFile}}

InitServer ==
    /\ cstate = "none"
    /\ maxSize = 0
    /\ map = <<>>
    /\ lastOp = NoOp
    /\ prevOp = NoOp
    /\ ret = Undefined
    /\ tick = 0
    /\ lastUse = <<>>
    /\ pureSets = TRUE
    /\ index = <<>>
    /\ disk = DiskOf(ServedIndex, {})
    /\ call = NoCall
    /\ payload = <<>>
    /\ trace = <<>>
    /\ results = <<>>
    /\ reads = <<>>
    /\ icons = <<>>
    /\ scored = <<>>
    /\ limited = <<>>
    /\ colors = [decisionTokens |-> <<>>, families |-> <<>>, illustrativeNames |-> <<>>]
    /\ tokens = <<>>
    /\ colorSections = <<>>
    /\ ExcerptIdle
    /\ pc = "loadIndex"
    /\ artifacts \in ArtifactSets
    /\ loads = [f \in {IndexFile, IconsFile, ColorsFile} |-> 0]
    /\ fatal = <<>>
    /\ SchedIdle

\* const index = loadIndex(DOCS_DIR)
LoadIndex ==
    /\ pc = "loadIndex"
    /\ \E r \in {LoadArtifact(artifacts, DOCS_DIR, IndexFile)} :
           IF r.threw
           THEN pc' = "exited" /\ fatal' = r.message /\ UNCHANGED <<index, loads>>
           ELSE /\ pc' = "loadIcons" /\ index' = r.value
                /\ loads' = [loads EXCEPT ![IndexFile] = @ + 1]
                /\ UNCHANGED fatal
    /\ UNCHANGED <<cstate, maxSize, map, lastOp, prevOp, ret, tick, lastUse, pureSets,
                   disk, call, payload, trace, searchVars, iconVars, colorVars,
                   excerptVars, artifacts, schedVars>>

\* const icons = loadIcons(DOCS_DIR)
LoadIcons ==
    /\ pc = "loadIcons"
    /\ \E r \in {LoadArtifact(artifacts, DOCS_DIR, IconsFile)} :
           IF r.threw
           THEN pc' = "exited" /\ fatal' = r.message /\ UNCHANGED <<icons, loads>>
           ELSE /\ pc' = "loadColors" /\ icons' = r.value
                /\ loads' = [loads EXCEPT ![IconsFile] = @ + 1]
                /\ UNCHANGED fatal
    /\ UNCHANGED <<cstate, maxSize, map, lastOp, prevOp, ret, tick, lastUse, pureSets,
                   index, disk, call, payload, trace, searchVars, scored, limited,
                   colorVars, excerptVars, artifacts, schedVars>>

\* const colors = loadColors(DOCS_DIR)
LoadColors ==
    /\ pc = "loadColors"
    /\ \E r \in {LoadArtifact(artifacts, DOCS_DIR, ColorsFile)} :
           IF r.threw
           THEN pc' = "exited" /\ fatal' = r.message /\ UNCHANGED <<colors, loads>>
           ELSE /\ pc' = "newCache" /\ colors' = r.value
                /\ loads' = [loads EXCEPT ![ColorsFile] = @ + 1]
                /\ UNCHANGED fatal
    /\ UNCHANGED <<cstate, maxSize, map, lastOp, prevOp, ret, tick, lastUse, pureSets,
                   index, disk, call, payload, trace, searchVars, iconVars, tokens,
                   colorSections, excerptVars, artifacts, schedVars>>

\* const cache = new LRUCache<string, string>(50)
NewCache ==
    /\ pc = "newCache"
    /\ IF ConstructorThrows(CacheCapacity)
       THEN cstate' = "threw" /\ pc' = "exited" /\ UNCHANGED maxSize
       ELSE cstate' = "ready" /\ pc' = "connect" /\ maxSize' = CacheCapacity
    /\ UNCHANGED <<map, lastOp, prevOp, ret, tick, lastUse, pureSets, index, disk, call,
                   payload, trace, searchVars, iconVars, colorVars, excerptVars,
                   artifacts, loads, fatal, schedVars>>

\* main: await server.connect(transport)
Connect ==
    /\ pc = "connect"
    /\ pc' = "serving"
    /\ UNCHANGED <<cstate, maxSize, map, lastOp, prevOp, ret, tick, lastUse, pureSets,
                   index, disk, call, payload, trace, searchVars, iconVars, colorVars,
                   excerptVars, artifacts, loads, fatal, schedVars>>

\* JSON.stringify of a string without characters to escape
JsonString(s) == <<"\"">> \o s \o <<"\"">>

\* JSON.stringify(sections, null, 2) at the depth of an entry's field
JsonSections(sections) ==
    IF Len(sections) = 0 THEN <<"[]">>
    ELSE <<"[\n">>
             \o Join([j \in 1 .. Len(sections) |-> <<"      ">> \o JsonString(sections[j])],
                     <<",\n">>)
             \o <<"\n    ]">>

\* JSON.stringify of one element of list, at depth 1
JsonEntry(e) ==
    <<"  {\n">>
        \o <<"    \"name\": ">> \o JsonString(e.name) \o <<",\n">>
        \o <<"    \"title\": ">> \o JsonString(e.title) \o <<",\n">>
        \o <<"    \"description\": ">> \o JsonString(e.description) \o <<",\n">>
        \o <<"    \"category\": ">> \o JsonString(e.category) \o <<",\n">>
        \o <<"    \"sections\": ">> \o JsonSections(e.sections) \o <<"\n">>
        \o <<"  }">>

\* listComponents(index): JSON.stringify(list, null, 2)
ListComponentsText(idx) ==
    IF Len(idx) = 0 THEN <<"[]">>
    ELSE <<"[\n">> \o Join([i \in 1 .. Len(idx) |-> JsonEntry(idx[i])], <<",\n">>)
             \o <<"\n]">>

\* the list_components handler: listComponents(index)
ListComponents ==
    /\ payload' = ListComponentsText(index)
    /\ call' = [NoCall EXCEPT !.op = "listComponents"]
    /\ UNCHANGED <<cstate, maxSize, map, lastOp, prevOp, ret, tick, lastUse, pureSets,
                   index, disk, trace, searchVars, iconVars, colorVars, serverVars>>

\* the arguments of the requests the connected server is sent
ServedNames == {<<"a", "a">>, <<"a", "b">>, <<"b">>}
ServedQueries == {<<":">>, <<"code">>}
ServedIconQueries == {<<"a">>, <<"a", "-">>}
ServedCategories == {Undefined, Def(Arrows)}
ServedContexts == {Undefined, Def(Background)}
ServedFamilies == {Undefined, Def(<<"a">>)}

\* a request read from the connected transport and handled
Serve ==
    /\ pc = "serving"
    /\ \/ ListComponents
       \/ \E name \in ServedNames, section \in SharedSections : GetComponentDoc(name, section)
       \/ \E query \in ServedQueries : SearchComponents(query)
       \/ \E query \in ServedIconQueries, category \in ServedCategories :
              SearchIcons(query, category)
       \/ \E context \in ServedContexts, family \in ServedFamilies :
              GetColorTokens(context, Undefined, family)

NextServer == LoadIndex \/ LoadIcons \/ LoadColors \/ NewCache \/ Connect \/ Serve

SpecServer == InitServer /\ [][NextServer]_vars

----------------------------------------------------------------------------
(* Handler invocations, one readFileWithCache call at a time *)

\* largest number of tool requests received
MaxRequests == 3

\* the tool requests that reach the cache: get_component_doc and search_components
Requests ==
    {[op |-> "getComponentDoc", name |-> <<"a", "b">>, section |-> Code],
     [op |-> "getComponentDoc", name |-> <<"a", "a">>, section |-> Overview],
     [op |-> "searchComponents", name |-> <<"code">>, section |-> <<>>],
     [op |-> "searchComponents", name |-> <<":">>, section |-> <<>>]}

\* the loop over the index from entry i on, up to the next entry whose sections
\* are to be read: the entries skipped on a metadata match push their result
RECURSIVE SkipMatched(_, _, _, _)
SkipMatched(idx, q, i, acc) ==
    IF i > Len(idx) THEN [i |-> i, acc |-> acc]
    ELSE IF MetaMatch(idx[i], q)
    THEN SkipMatched(idx, q, i + 1, PushResults(acc, <<MetadataResult(idx[i])>>))
    ELSE IF Len(idx[i].sections) = 0 THEN SkipMatched(idx, q, i + 1, acc)
    ELSE [i |-> i, acc |-> acc]

\* a handler invocation at its first statement
Invoke(idx, req, id) ==
    IF req.op = "searchComponents"
    THEN LET at == SkipMatched(idx, ToLowerCase(req.name), 1, <<>>)
         IN  [id |-> id, op |-> req.op, name |-> req.name, section |-> req.section,
              i |-> at.i, j |-> 1, acc |-> at.acc, read |-> Undefined]
    ELSE [id |-> id, op |-> req.op, name |-> req.name, section |-> req.section,
          i |-> 0, j |-> 1, acc |-> <<>>, read |-> Undefined]

\* the path of the next readFileWithCache call of an invocation, <<>> when it
\* has none left
NextRead(idx, inv) ==
    IF inv.op = "searchComponents"
    THEN IF inv.i > Len(idx) THEN <<>>
         ELSE SectionPath(DOCS_DIR, idx[inv.i], idx[inv.i].sections[inv.j])
    ELSE LET e == FindEntry(idx, inv.name)
         IN  IF inv.i = 0 /\ e # 0 /\ ArrayIncludes(idx[e].sections, inv.section)
             THEN SectionPath(DOCS_DIR, idx[e], inv.section)
             ELSE <<>>

\* the invocation after readFileWithCache returned content
AfterRead(idx, inv, content) ==
    IF inv.op = "searchComponents"
    THEN LET q == ToLowerCase(inv.name)
             entry == idx[inv.i]
         IN  IF content.def /\ content.val # <<>>
                  /\ IndexOf(ToLowerCase(content.val), q) # 0 - 1
             THEN LET at == SkipMatched(idx, q, inv.i + 1,
                                 PushResults(inv.acc,
                                     <<ContentResult(entry, entry.sections[inv.j],
                                                     content.val, q)>>))
                  IN  [inv EXCEPT !.i = at.i, !.j = 1, !.acc = at.acc]
             ELSE IF inv.j < Len(entry.sections)
             THEN [inv EXCEPT !.j = inv.j + 1]
             ELSE LET at == SkipMatched(idx, q, inv.i + 1, inv.acc)
                  IN  [inv EXCEPT !.i = at.i, !.j = 1, !.acc = at.acc]
    ELSE [inv EXCEPT !.i = 1, !.read = content]

\* the text an invocation returns once it has no read left
ReturnText(idx, inv) ==
    IF inv.op = "searchComponents"
    THEN IF Len(inv.acc) = 0 THEN NoResultsText(inv.name)
         ELSE ResultsText(inv.acc, inv.name)
    ELSE LET e == FindEntry(idx, inv.name)
         IN  IF e = 0 THEN NotFoundText(inv.name, Suggestions(idx, inv.name))
             ELSE IF ~ArrayIncludes(idx[e].sections, inv.section)
             THEN UnavailableText(inv.section, idx[e])
             ELSE IF ~inv.read.def THEN MissingFileText(inv.section, idx[e])
             ELSE DocumentText(inv.section, idx[e], inv.read.val)

\* the same query as one step: the cache it leaves and the text it returns
Atomic(idx, inv, m, n, d) ==
    IF inv.op = "searchComponents"
    THEN LET r == SearchComponentsResult(idx, DOCS_DIR, inv.name, m, n, d)
         IN  [map |-> r.map, text |-> r.text]
    ELSE LET r == GetComponentDocResult(idx, DOCS_DIR, inv.name, inv.section, m, n, d)
         IN  [map |-> r.map, text |-> r.text]

\* mutant of CanBegin: a handler may begin while another is between two reads
CanBegin_suspending(rs) == TRUE

\* the handlers are async functions without await: a handler begins only when
\* no other handler is on the stack
CanBegin(rs) == rs = <<>>

InitConcurrent ==
    /\ cstate = "ready"
    /\ maxSize \in 1 .. MaxDocCap
    /\ map = <<>>
    /\ lastOp = NoOp
    /\ prevOp = NoOp
    /\ ret = Undefined
    /\ tick = 0
    /\ lastUse = <<>>
    /\ pureSets = TRUE
    /\ index = ServedIndex
    /\ \E missing \in SUBSET {SectionPath(DOCS_DIR, AllEntries[2], Code)} :
           disk = DiskOf(index, missing)
    /\ call = NoCall
    /\ payload = <<>>
    /\ trace = <<>>
    /\ results = <<>>
    /\ reads = <<>>
    /\ icons = <<>>
    /\ scored = <<>>
    /\ limited = <<>>
    /\ colors = [decisionTokens |-> <<>>, families |-> <<>>, illustrativeNames |-> <<>>]
    /\ tokens = <<>>
    /\ colorSections = <<>>
    /\ ExcerptIdle
    /\ StartupIdle
    /\ SchedIdle

\* a tool request arrives on the transport
Receive(req) ==
    /\ received < MaxRequests
    /\ received' = received + 1
    /\ pending' = Append(pending, [id |-> received + 1, req |-> req])
    /\ UNCHANGED <<cstate, maxSize, map, lastOp, prevOp, ret, tick, lastUse, pureSets,
                   index, disk, call, payload, trace, searchVars, iconVars, colorVars,
                   excerptVars, startupVars, running, oplog, atomicMap>>

\* the server calls the handler of the oldest pending request
Begin ==
    /\ pending # <<>>
    /\ CanBegin(running)
    /\ running' = Append(running, Invoke(index, Head(pending).req, Head(pending).id))
    /\ pending' = Tail(pending)
    /\ UNCHANGED <<cstate, maxSize, map, lastOp, prevOp, ret, tick, lastUse, pureSets,
                   index, disk, call, payload, trace, searchVars, iconVars, colorVars,
                   excerptVars, startupVars, received, oplog, atomicMap>>

\* the k-th running handler makes its next readFileWithCache call
Step(k) ==
    /\ k \in 1 .. Len(running)
    /\ NextRead(index, running[k]) # <<>>
    /\ \E r \in {ReadFileWithCache(map, maxSize, disk, NextRead(index, running[k]))} :
           /\ map' = r.map
           /\ ret' = r.ret
           /\ trace' = r.trace
           /\ running' = [running EXCEPT ![k] = AfterRead(index, running[k], r.ret)]
    /\ oplog' = Append(oplog, running[k].id)
    /\ UNCHANGED <<cstate, maxSize, lastOp, prevOp, tick, lastUse, pureSets,
                   index, disk, call, payload, searchVars, iconVars, colorVars,
                   excerptVars, startupVars, pending, received, atomicMap>>

\* the k-th running handler returns its ToolTextResult
Return(k) ==
    /\ k \in 1 .. Len(running)
    /\ NextRead(index, running[k]) = <<>>
    /\ payload' = ReturnText(index, running[k])
    /\ call' = [NoCall EXCEPT !.op = running[k].op, !.name = running[k].name,
                              !.section = running[k].section, !.entry = running[k].id]
    /\ atomicMap' = Atomic(index, running[k], atomicMap, maxSize, disk).map
    /\ running' = SubSeq(running, 1, k - 1) \o SubSeq(running, k + 1, Len(running))
    /\ UNCHANGED <<cstate, maxSize, map, lastOp, prevOp, ret, tick, lastUse, pureSets,
                   index, disk, trace, searchVars, iconVars, colorVars,
                   excerptVars, startupVars, pending, received, oplog>>

NextConcurrent ==
    \/ \E req \in Requests : Receive(req)
    \/ Begin
    \/ \E k \in 1 .. MaxRequests : Step(k)
    \/ \E k \in 1 .. MaxRequests : Return(k)

SpecConcurrent == InitConcurrent /\ [][NextConcurrent]_vars

----------------------------------------------------------------------------
(* The excerpt of a content match, on contents long enough to be cut *)

\* largest number of characters before, and after, the match in a section file
MaxPad == 82

\* n characters of running text, every fifth one a newline
Filler(n) == [i \in 1 .. n |-> IF i % 5 = 0 THEN "\n" ELSE "x"]

\* the lengths of text around the match: next to nothing, and around the radius
PadLengths == {0, 1} \cup ((MaxPad - 3) .. MaxPad)

\* the contents and lower-cased queries the section loop hands to the excerpt:
\* the query as it is written in the file, text around it, and possibly the
\* query once more at the end of the file
ExcerptInputs ==
    {[content |-> Filler(b) \o m \o Filler(a) \o (IF twice THEN m ELSE <<>>),
      q |-> ToLowerCase(m)] :
        b \in PadLengths, a \in PadLengths, m \in {<<"A">>, <<"a", "B">>},
        twice \in BOOLEAN}

InitExcerpt ==
    /\ cstate = "ready"
    /\ maxSize = 1
    /\ map = <<>>
    /\ lastOp = NoOp
    /\ prevOp = NoOp
    /\ ret = Undefined
    /\ tick = 0
    /\ lastUse = <<>>
    /\ pureSets = TRUE
    /\ index = <<>>
    /\ disk = <<>>
    /\ call = NoCall
    /\ payload = <<>>
    /\ trace = <<>>
    /\ results = <<>>
    /\ reads = <<>>
    /\ icons = <<>>
    /\ scored = <<>>
    /\ limited = <<>>
    /\ colors = [decisionTokens |-> <<>>, families |-> <<>>, illustrativeNames |-> <<>>]
    /\ tokens = <<>>
    /\ colorSections = <<>>
    /\ \E in \in ExcerptInputs : sectionContent = in.content /\ needle = in.q
    /\ excerpt = <<>>
    /\ StartupIdle
    /\ SchedIdle

\* the body of `if (content.toLowerCase().includes(q))`, up to the excerpt
MakeExcerpt ==
    /\ call.op = "none"
    /\ Includes(ToLowerCase(sectionContent), needle)
    /\ excerpt' = Excerpt(sectionContent, needle)
    /\ call' = [NoCall EXCEPT !.op = "excerpt"]
    /\ UNCHANGED <<cstate, maxSize, map, lastOp, prevOp, ret, tick, lastUse, pureSets,
                   index, disk, payload, trace, searchVars, iconVars, colorVars,
                   sectionContent, needle, startupVars, schedVars>>

NextExcerpt == MakeExcerpt

SpecExcerpt == InitExcerpt /\ [][NextExcerpt]_vars

----------------------------------------------------------------------------
(* Recency as the claims state it, from the calls made and not from the map *)

\* the key of m whose last successful get or set is oldest
OldestUsed(m, use) ==
    CHOOSE x \in MapKeys(m) : \A y \in MapKeys(m) : use[x] <= use[y]

\* the step just taken was a cache call (not a stuttering step)
Called(op) == tick' = tick + 1 /\ lastOp'.op = op

----------------------------------------------------------------------------
(* C1: every constructed cache of capacity N >= 1 has 0 <= size <= N after *)
(* any sequence of set, get and clear calls.                               *)
C1_SizeWithinCapacity ==
    cstate = "ready" => (maxSize >= 1 /\ 0 <= size /\ size <= maxSize)

\* a full cache right after a set that had to evict
C1_Witness ==
    /\ cstate = "ready" /\ maxSize >= 2
    /\ lastOp.op = "set" /\ lastOp.evicted # {} /\ size = maxSize

(* C2: a set of an absent key into a cache holding N keys evicts exactly   *)
(* one entry, the key whose last successful get or set is oldest, and      *)
(* keeps every other key with its value; N+1 distinct keys set in a row    *)
(* leave the first absent and the N others present.                        *)
C2_EvictsLeastRecentlyUsed ==
    /\ [][(Called("set") /\ lastOp'.isNew /\ Len(map) = maxSize) =>
            LET victim == OldestUsed(map, lastUse)
            IN  /\ lastOp'.evicted = {victim}
                /\ MapKeys(map') = (MapKeys(map) \cup {lastOp'.key}) \ {victim}
                /\ \A y \in MapKeys(map) \ {victim} : MapGet(map', y) = MapGet(map, y)
                /\ MapGet(map', lastOp'.key) = Def(lastOp'.val)]_vars
    /\ []((cstate = "ready" /\ pureSets /\ tick = maxSize + 1) =>
            \A k \in LRUKeys :
                /\ lastUse[k] = 1 => ~MapHas(map, k)
                /\ lastUse[k] > 1 => MapHas(map, k))

\* an eviction right after a get, of a key that was not the first one used
C2_Witness ==
    /\ cstate = "ready" /\ maxSize >= 2 /\ ~pureSets
    /\ lastOp.op = "set" /\ lastOp.isNew /\ lastOp.evicted # {}
    /\ prevOp.op = "get" /\ prevOp.hit
    /\ \A e \in lastOp.evicted : lastUse[e] > 1

(* C3 as stated: for any capacity N >= 1, get(k) on a present key followed *)
(* at once by a set of an absent key leaves k present with its value.      *)
C3_Original ==
    (prevOp.op = "get" /\ prevOp.hit /\ lastOp.op = "set" /\ lastOp.isNew) =>
        MapGet(map, prevOp.key) = Def(prevOp.val)

(* C3 amended: the same for any capacity N >= 2; a cache of capacity 1     *)
(* keeps only the key just set.                                            *)
C3_GetProtectsFromNextEviction ==
    (maxSize >= 2 /\ prevOp.op = "get" /\ prevOp.hit /\ lastOp.op = "set"
        /\ lastOp.isNew) =>
        MapGet(map, prevOp.key) = Def(prevOp.val)

\* k was the oldest entry of a full cache, was read, and the set that
\* followed evicted another key
C3_Witness ==
    /\ cstate = "ready" /\ maxSize >= 2
    /\ prevOp.op = "get" /\ prevOp.hit
    /\ lastOp.op = "set" /\ lastOp.isNew /\ lastOp.evicted # {}
    /\ \A k \in MapKeys(map) \ {prevOp.key, lastOp.key} :
          \A e \in lastOp.evicted : lastUse[e] < lastUse[k]
    /\ MapHas(map, prevOp.key)

(* C4: set(k, v) on a present key replaces its value by v, makes k the     *)
(* most-recently-used key, leaves size unchanged, evicts nothing and keeps *)
(* the relative recency order of all other keys.                           *)
C4_UpdateRefreshes ==
    [][(Called("set") /\ ~lastOp'.isNew) =>
          LET k == lastOp'.key
          IN  /\ MapGet(map', k) = Def(lastOp'.val)
              /\ map'[Len(map')].k = k
              /\ Len(map') = Len(map)
              /\ lastOp'.evicted = {}
              /\ MapDelete(map', k) = MapDelete(map, k)]_vars

\* an update of the oldest entry of a full cache
C4_Witness ==
    /\ cstate = "ready" /\ maxSize >= 2 /\ size = maxSize
    /\ lastOp.op = "set" /\ lastOp.hit
    /\ map[Len(map)].k = lastOp.key
    /\ \A k \in MapKeys(map) \ {lastOp.key} : lastUse[k] > 0

(* C5: constructing a cache with capacity N < 1 fails at once; no cache    *)
(* with capacity below 1 is ever usable.                                   *)
C5_RejectsCapacityBelowOne ==
    /\ (lastOp.op = "new" /\ lastOp.n < 1) => cstate = "threw"
    /\ cstate = "threw" => (map = <<>> /\ tick = 0)
    /\ cstate = "ready" => maxSize >= 1

\* the constructor was handed 0 and threw
C5_Witness == cstate = "threw" /\ lastOp.op = "new" /\ lastOp.n = 0

----------------------------------------------------------------------------
(* Reading the texts getComponentDoc returns *)

\* the step just taken handled a get_component_doc query
Handled == call'.op = "getComponentDoc"

\* the position of the first element of text equal to tok (0: none)
PositionOf(text, tok) ==
    LET hits == {i \in 1 .. Len(text) : text[i] = tok}
    IN  IF hits = {} THEN 0 ELSE CHOOSE i \in hits : \A j \in hits : i <= j

\* a not-found text without the query name it echoes
WithoutEchoedName(text, name) ==
    SubSeq(text, 1, 1) \o SubSeq(text, 2 + Len(name), Len(text))

\* what a not-found text says about suggestions: all that stands between the
\* not-found sentence and the pointer to list_components
SuggestionClause(text, name) == SubSeq(text, 3 + Len(name), Len(text) - 1)

\* the number of suggestions a not-found text lists
NumListed(text, name) ==
    LET clause == SuggestionClause(text, name)
    IN  IF clause = <<>> THEN 0
        ELSE 1 + Cardinality({i \in 1 .. Len(clause) : clause[i] = ", "})

\* the sections an unavailable-section text lists, in order
ListedSections(text) ==
    LET at == PositionOf(text, "). Sections disponibles : ")
        rest == SubSeq(text, at + 1, Len(text))
    IN  [k \in 1 .. ((Len(rest) + 1) \div 2) |-> <<rest[2 * k - 1]>>]

\* the elements of a set of positions in ascending order
Ascending(S) ==
    [k \in 1 .. Cardinality(S) |-> CHOOSE i \in S : Cardinality({j \in S : j < i}) = k - 1]

\* the entries whose lower-cased name or lower-cased title contains the
\* lower-cased query
Matching(idx, name) ==
    {i \in 1 .. Len(idx) :
        \/ Includes(ToLowerCase(idx[i].name), ToLowerCase(name))
        \/ Includes(ToLowerCase(idx[i].title), ToLowerCase(name))}

\* two names that differ at most in letter case
SameButCase(n1, n2) == ToLowerCase(n1) = ToLowerCase(n2)

(* C6: a readFileWithCache miss on an existing file returns the file's     *)
(* full text and leaves the path mapped to that text as the most recently  *)
(* used cache entry; a read of the same path right after it is a cache hit *)
(* that returns the same text without touching the disk.                   *)
C6_MissReadsAndCaches ==
    /\ [][(Handled /\ call'.path # <<>> /\ ~MapHas(map, call'.path)
             /\ call'.path \in DOMAIN disk) =>
            LET p == call'.path
                again == ReadFileWithCache(map', maxSize, disk, p)
            IN  /\ ret' = Def(disk[p])
                /\ Len(map') > 0
                /\ map'[Len(map')] = [k |-> p, v |-> disk[p]]
                /\ again.ret = ret'
                /\ again.trace = <<"cache.get">>
                /\ ~again.threw]_vars
    /\ [][(call.outcome = "ok" /\ Handled /\ call'.path = call.path
             /\ "readFileSync" \in {trace[i] : i \in 1 .. Len(trace)}) =>
            (trace' = <<"cache.get">> /\ ret' = ret /\ payload' = payload)]_vars

\* a miss that read the file from disk and stored it, evicting another entry
C6_Witness ==
    /\ call.outcome = "ok"
    /\ trace = <<"cache.get", "existsSync", "readFileSync", "cache.set">>
    /\ Len(map) = maxSize /\ maxSize = 2
    /\ map[Len(map)].k = call.path
    /\ ret.def /\ ret.val # <<>>

C9_Original ==
    (call.outcome = "notFound" /\ Matching(index, call.name) = {}) =>
        /\ SubSeq(payload, 1, 2 + Len(call.name))
             = NotFoundHead \o call.name \o NotFoundMid
        /\ SuggestionClause(payload, call.name) # <<>>

(* C9 amended: in that case the not-found text names the query and says    *)
(* nothing about suggestions: the not-found sentence is followed at once   *)
(* by the pointer to list_components.                                      *)
C9_NoSuggestionsOmitsClause ==
    (call.outcome = "notFound" /\ Matching(index, call.name) = {}) =>
        /\ SubSeq(payload, 1, 2 + Len(call.name))
             = NotFoundHead \o call.name \o NotFoundMid
        /\ SuggestionClause(payload, call.name) = <<>>
        /\ payload[Len(payload)]
             = "\nUtilisez list_components pour voir la liste complete."
        /\ Len(payload) = 3 + Len(call.name)

\* an unknown name that no name or title of a non-empty index contains
C9_Witness ==
    /\ call.outcome = "notFound" /\ Len(index) > 0
    /\ call.name = <<"B", "C">>
    /\ Matching(index, call.name) = {}

(* C10: when an entry matches but the section is not among its sections,   *)
(* or is declared while its file is missing on disk, getComponentDoc       *)
(* returns, and never throws, the same unavailable-section text, naming    *)
(* the entry and listing exactly its declared sections in order.           *)
C10_UnavailableSection ==
    /\ call.outcome # "threw"
    /\ (call.op = "getComponentDoc" /\ call.entry # 0) =>
          LET entry == index[call.entry]
              declared == ArrayIncludes(entry.sections, call.section)
              onDisk == SectionPath(DOCS_DIR, entry, call.section) \in DOMAIN disk
          IN  /\ (~declared \/ ~onDisk) <=> call.outcome \in {"unavailable", "missingFile"}
              /\ (~declared \/ ~onDisk) =>
                    /\ payload = UnavailableText(call.section, entry)
                    /\ ListedSections(payload) = entry.sections
                    /\ SubSeq(payload, 4, 3 + Len(entry.name)) = entry.name

\* a declared section whose file is not on disk was asked for
C10_Witness ==
    /\ call.outcome = "missingFile"
    /\ Len(index[call.entry].sections) = 2
    /\ call.path \notin DOMAIN disk

----------------------------------------------------------------------------
(* Reading what searchComponents did *)

\* the step just taken handled a search_components query
Searched == call'.op = "searchComponents"

\* the paths of the section files an entry declares
EntryPaths(entry) ==
    {SectionPath(DOCS_DIR, entry, entry.sections[j]) : j \in 1 .. Len(entry.sections)}

\* the positions in rs of the results contributed by an entry
ResultsOf(rs, entry) ==
    {k \in 1 .. Len(rs) : rs[k].name = entry.name /\ rs[k].category = entry.category}

\* the position in the index of the entry a result was contributed by
EntryOf(idx, r) ==
    CHOOSE i \in 1 .. Len(idx) : idx[i].name = r.name /\ idx[i].category = r.category

\* the lower-cased name, title or description of the entry contains the
\* lower-cased query
MetadataContains(entry, query) ==
    \E field \in {entry.name, entry.title, entry.description} :
        Includes(ToLowerCase(field), ToLowerCase(query))

\* the lower-cased text of a section file of the entry contains the lower-cased query
SectionsContaining(entry, query) ==
    {p \in EntryPaths(entry) \cap DOMAIN disk :
        disk[p] # <<>> /\ Includes(ToLowerCase(disk[p]), ToLowerCase(query))}

\* the names a result listing shows, in order: what stands between each
\* "- **" and the "** (" after it
ListedNames(text) ==
    LET opens == {i \in 1 .. Len(text) : text[i] = "- **"}
        CloseOf(i) == CHOOSE j \in (i + 1) .. Len(text) :
                          /\ text[j] = "** ("
                          /\ \A k \in (i + 1) .. (j - 1) : text[k] # "** ("
    IN  [k \in 1 .. Cardinality(opens) |->
            LET i == Ascending(opens)[k] IN SubSeq(text, i + 1, CloseOf(i) - 1)]

(* C11: in searchComponents every entry whose lower-cased name, title or   *)
(* description contains the lower-cased query contributes exactly one      *)
(* result, of matchType "metadata" and with its description as excerpt,    *)
(* and none of its section files is read: no path of the entry is handed   *)
(* to readFileWithCache, no path of the entry enters the cache, and a      *)
(* search in which every entry matches so leaves the cache as it was.      *)
C11_MetadataMatchReadsNothing ==
    /\ [](call.op = "searchComponents" =>
            \A i \in 1 .. Len(index) :
                MetadataContains(index[i], call.name) =>
                    /\ Cardinality(ResultsOf(results, index[i])) = 1
                    /\ \A k \in ResultsOf(results, index[i]) :
                          /\ results[k].matchType = <<"metadata">>
                          /\ results[k].excerpt = index[i].description
                    /\ \A k \in 1 .. Len(reads) : reads[k] \notin EntryPaths(index[i]))
    /\ [][Searched =>
            /\ \A i \in 1 .. Len(index) :
                  MetadataContains(index[i], call'.name) =>
                      \A p \in EntryPaths(index[i]) : MapHas(map', p) => MapHas(map, p)
            /\ (\A i \in 1 .. Len(index) : MetadataContains(index[i], call'.name)) =>
                  (map' = map /\ trace' = <<>>)]_vars

\* an entry matched on its metadata although a section file of it, on disk,
\* contains the query too, in a search that read files of other entries
C11_Witness ==
    /\ call.op = "searchComponents" /\ call.name # <<>>
    /\ \E i \in 1 .. Len(index) :
          /\ MetadataContains(index[i], call.name)
          /\ SectionsContaining(index[i], call.name) # {}
    /\ Len(reads) > 0 /\ Len(map) > 0
    /\ \E k \in 1 .. Len(results) : results[k].matchType # <<"metadata">>

(* C12: searchComponents returns at most one result per index entry for    *)
(* any query, even when the entry matches on metadata and on the content   *)
(* of two or more of its sections; every result comes from an entry.       *)
C12_OneResultPerEntry ==
    call.op = "searchComponents" =>
        /\ \A i \in 1 .. Len(index) : Cardinality(ResultsOf(results, index[i])) <= 1
        /\ \A k \in 1 .. Len(results) :
              \E i \in 1 .. Len(index) : k \in ResultsOf(results, index[i])
        /\ Len(results) <= Len(index)
        /\ Len(results) > 0 => Len(ListedNames(payload)) = Len(results)

\* an entry matched on its metadata and in two of its section files
C12_Witness ==
    /\ call.op = "searchComponents"
    /\ \E i \in 1 .. Len(index) :
          /\ MetadataContains(index[i], call.name)
          /\ Cardinality(SectionsContaining(index[i], call.name)) >= 2
          /\ Cardinality(ResultsOf(results, index[i])) = 1

(* C13: the results of searchComponents appear in index order: when e1     *)
(* precedes e2 in the index and both contribute a result, e1's result      *)
(* precedes e2's, whether each matched on metadata or on content; the      *)
(* listing returned shows them in that order.                              *)
C13_ResultsInIndexOrder ==
    call.op = "searchComponents" =>
        /\ \A a, b \in 1 .. Len(results) :
              EntryOf(index, results[a]) < EntryOf(index, results[b]) => a < b
        /\ Len(results) > 0 =>
              ListedNames(payload) = [k \in 1 .. Len(results) |-> results[k].name]

\* a metadata result, then a content result, then a metadata result
C13_Witness ==
    /\ call.op = "searchComponents"
    /\ \E a, b, c \in 1 .. Len(results) :
          /\ a < b /\ b < c
          /\ results[a].matchType = <<"metadata">>
          /\ results[b].matchType # <<"metadata">>
          /\ results[c].matchType = <<"metadata">>

----------------------------------------------------------------------------
(* Reading what searchIcons did *)

\* the icons of a scored array, as a set
IconsIn(arr) == {arr[i].icon : i \in 1 .. Len(arr)}

\* the icons of a list, as a set
IconSet(list) == {list[i] : i \in 1 .. Len(list)}

\* the score the search gives an icon for a query
ScoreAsStated(icon, query) ==
    LET n == ToLowerCase(icon.name)
        q == ToLowerCase(query)
    IN  IF n = q THEN 3
        ELSE IF Len(q) <= Len(n) /\ SubSeq(n, 1, Len(q)) = q THEN 2
        ELSE IF \E s \in {n} \cup {ToLowerCase(icon.classes[c]) : c \in 1 .. Len(icon.classes)} :
                    Includes(s, q)
             THEN 1
        ELSE 0

\* the icons the search looks at: all of them, or those of the category given
Considered(list, category) ==
    {i \in IconSet(list) : category.def => i.category = category.val}

\* name s comes strictly before name t in lexicographic order
LexLess(s, t) ==
    \E k \in 0 .. Min(Len(s), Len(t)) :
        /\ \A j \in 1 .. k : s[j] = t[j]
        /\ \/ (k = Len(s) /\ k < Len(t))
           \/ (k < Len(s) /\ k < Len(t) /\ CharRank(s[k + 1]) < CharRank(t[k + 1]))

\* x ranks strictly before y: a higher score, or the same score and a smaller name
Outranks(x, y) ==
    x.score > y.score \/ (x.score = y.score /\ LexLess(x.icon.name, y.icon.name))

(* C14: searchIcons includes an icon exactly when its score is positive,   *)
(* the score being 3 if the lower-cased name equals the lower-cased query, *)
(* else 2 if the name starts with it, else 1 if the name or any lower-     *)
(* cased class string contains it, else 0; when no more than 20 icons      *)
(* score positively, all of them are returned.                             *)
C14_IncludedIffPositiveScore ==
    call.op = "searchIcons" =>
        /\ IconsIn(scored)
             = {i \in Considered(icons, call.category) : ScoreAsStated(i, call.query) > 0}
        /\ \A k \in 1 .. Len(scored) :
              scored[k].score = ScoreAsStated(scored[k].icon, call.query)
        /\ IconsIn(limited) \subseteq IconsIn(scored)
        /\ Len(scored) <= 20 => IconsIn(limited) = IconsIn(scored)

\* some icons were included for a class string only while their name does not
\* contain the query, others were left out
C14_Witness ==
    /\ call.op = "searchIcons" /\ ~call.category.def
    /\ \E k \in 1 .. Len(limited) :
          /\ limited[k].score = 1
          /\ ~Includes(ToLowerCase(limited[k].icon.name), ToLowerCase(call.query))
          /\ Len(limited[k].icon.classes) = 2
    /\ IconSet(icons) \ IconsIn(scored) # {}

(* C15: searchIcons lists the matching icons by descending score, ties by  *)
(* ascending lexicographic order of name, and only the first 20 of that    *)
(* order: an icon whose name equals the query stands before every icon     *)
(* that only starts with or contains it, and no omitted match outranks a   *)
(* listed one.                                                             *)
C15_SortedAndCutAtTwenty ==
    call.op = "searchIcons" =>
        /\ Len(limited) = Min(20, Len(scored))
        /\ IconsIn(limited) \subseteq IconsIn(scored)
        /\ Cardinality(IconsIn(limited)) = Len(limited)
        /\ \A a, b \in 1 .. Len(limited) :
              a < b => ~Outranks(limited[b], limited[a])
        /\ \A a, b \in 1 .. Len(limited) :
              (/\ ToLowerCase(limited[a].icon.name) = ToLowerCase(call.query)
               /\ ToLowerCase(limited[b].icon.name) # ToLowerCase(call.query)) => a < b
        /\ \A k \in 1 .. Len(scored) :
              scored[k].icon \notin IconsIn(limited) =>
                  \A a \in 1 .. Len(limited) : ~Outranks(scored[k], limited[a])

\* more than 20 icons matched; the 20 listed hold an exact match, prefix
\* matches and substring matches
C15_Witness ==
    /\ call.op = "searchIcons"
    /\ Len(scored) > 20 /\ Len(limited) = 20
    /\ {limited[k].score : k \in 1 .. Len(limited)} = {1, 2, 3}
    /\ \E a, b \in 1 .. Len(scored) : a < b /\ Outranks(scored[b], scored[a])

(* C16: searchIcons is case-insensitive in the query: for any icon list,   *)
(* any category argument and any two queries that differ only in letter    *)
(* case, the icons returned and their order are the same.                  *)
C16_QueryCaseInsensitive ==
    call.op = "searchIcons" =>
        \A q2 \in {q \in IconQueries : SameButCase(q, call.query)} :
            \A r2 \in {SearchIconsResult(icons, q2, call.category)} :
                [k \in 1 .. Len(r2.limited) |-> r2.limited[k].icon]
                    = [k \in 1 .. Len(limited) |-> limited[k].icon]

\* an upper-case query that found icons by name and by class, in a category
C16_Witness ==
    /\ call.op = "searchIcons" /\ call.category.def
    /\ call.query = <<"B", "-fill">>
    /\ Len(limited) >= 2

(* C17: when a category is given to searchIcons, every icon returned has   *)
(* exactly that category, and an icon of that category is returned iff its *)
(* score is positive (subject to the cut at 20).                           *)
C17_CategoryFilter ==
    (call.op = "searchIcons" /\ call.category.def) =>
        LET positive == {i \in IconSet(icons) :
                            /\ i.category = call.category.val
                            /\ ScoreAsStated(i, call.query) > 0}
        IN  /\ \A k \in 1 .. Len(limited) : limited[k].icon.category = call.category.val
            /\ IconsIn(limited) \subseteq positive
            /\ Len(limited) = Min(20, Cardinality(positive))

\* a category was given and icons of it were returned, while icons of other
\* categories that match the query were not
C17_Witness ==
    /\ call.op = "searchIcons" /\ call.category.def
    /\ Len(limited) >= 2
    /\ \E i \in IconSet(icons) :
          i.category # call.category.val /\ ScoreAsStated(i, call.query) = 3

----------------------------------------------------------------------------
(* Reading the texts getColorTokens returns *)

\* what stands in text between each token `open` and the first `close` after it
Enclosed(text, open, close) ==
    LET opens == {i \in 1 .. Len(text) : text[i] = open}
        CloseOf(i) == CHOOSE j \in (i + 1) .. Len(text) :
                          /\ text[j] = close
                          /\ \A k \in (i + 1) .. (j - 1) : text[k] # close
    IN  [k \in 1 .. Cardinality(opens) |->
            LET i == Ascending(opens)[k] IN SubSeq(text, i + 1, CloseOf(i) - 1)]

\* the items of a ", "-separated list
RECURSIVE Split(_)
Split(s) ==
    LET at == PositionOf(s, ", ")
    IN  IF s = <<>> THEN <<>>
        ELSE IF at = 0 THEN <<s>>
        ELSE <<SubSeq(s, 1, at - 1)>> \o Split(SubSeq(s, at + 1, Len(s)))

\* the elements of a sequence, as a set
Range(s) == {s[i] : i \in 1 .. Len(s)}

\* the three lists a summary shows
SummaryContexts(text) ==
    Split(Enclosed(text, "Tokens de couleur DSFR disponibles :\n\n**Contextes :** ",
                   "\n**Familles :** ")[1])
SummaryFamilies(text) ==
    Split(Enclosed(text, "\n**Familles :** ", "\n**Couleurs illustratives :** ")[1])
SummaryIllustratives(text) ==
    Split(Enclosed(text, "\n**Couleurs illustratives :** ",
                   "\n\nUtilisez les parametres context, usage ou family pour filtrer.")[1])

\* the identifiers of the decision tokens a text renders, in order
RenderedTokens(text) == Enclosed(text, "- '", "'\n  ")

\* the names of the families a text renders, in order
RenderedFamilies(text) == Enclosed(text, "### Famille \"", "\" (")

\* the family sections among the sections
FamilySections(secs) == SelectSeq(secs, LAMBDA s : s[1] = "### Famille \"")

\* the token satisfies every filter of a set of filters that count as given
Satisfies(t, context, usage, family, given) ==
    /\ "context" \in given => <<t.context>> = <<context.val>>
    /\ "usage" \in given =>
          \/ Includes(ToLowerCase(t.token), ToLowerCase(usage.val))
          \/ Includes(ToLowerCase(t.description), ToLowerCase(usage.val))
    /\ "family" \in given => Includes(ToLowerCase(t.token), ToLowerCase(family.val))

\* the filters present in the call, and those present and not empty
Present(c) ==
    {f \in {"context", "usage", "family"} :
        (f = "context" /\ c.context.def) \/ (f = "usage" /\ c.usage.def)
            \/ (f = "family" /\ c.family.def)}
NonEmpty(c) ==
    {f \in {"context", "usage", "family"} :
        (f = "context" /\ Truthy(c.context)) \/ (f = "usage" /\ Truthy(c.usage))
            \/ (f = "family" /\ Truthy(c.family))}

\* the identifiers of the decision tokens that satisfy the filters, in their order
Expected(c, given) ==
    LET kept == SelectSeq(colors.decisionTokens,
                          LAMBDA t : Satisfies(t, c.context, c.usage, c.family, given))
    IN  [i \in 1 .. Len(kept) |-> kept[i].token]

\* the families whose lower-cased name or category contains the lower-cased string
FamiliesContaining(f) ==
    SelectSeq(colors.families, LAMBDA fam :
        \/ Includes(ToLowerCase(fam.name), ToLowerCase(f))
        \/ Includes(ToLowerCase(fam.category), ToLowerCase(f)))

(* C18: getColorTokens called with context, usage and family all absent    *)
(* never fails and returns the summary: every distinct context value that  *)
(* occurs among the decision tokens, once; every family's name with its    *)
(* category; and the illustrative names, for any ColorsIndex, one with     *)
(* empty lists included.                                                   *)
C18_SummaryWithoutFilter ==
    (call.op = "getColorTokens" /\ Present(call) = {}) =>
        /\ call.outcome = "summary"
        /\ Range(SummaryContexts(payload))
             = {colors.decisionTokens[i].context : i \in 1 .. Len(colors.decisionTokens)}
        /\ Len(SummaryContexts(payload)) = Cardinality(Range(SummaryContexts(payload)))
        /\ SummaryFamilies(payload)
             = [i \in 1 .. Len(colors.families) |->
                   colors.families[i].name \o <<" (">> \o colors.families[i].category
                       \o <<")">>]
        /\ SummaryIllustratives(payload) = colors.illustrativeNames

\* a summary of tokens of three contexts, two of them sharing one, and of
\* families of which some are illustrative
C18_Witness ==
    /\ call.op = "getColorTokens" /\ Present(call) = {}
    /\ Len(SummaryContexts(payload)) = 3
    /\ Len(colors.decisionTokens) > 3
    /\ Len(colors.families) >= 3 /\ Len(colors.illustrativeNames) >= 1

(* C19 as stated: the decision tokens rendered are exactly those that      *)
(* satisfy all the filters present in the call, in their original order.   *)
C19_Original ==
    (call.op = "getColorTokens" /\ Present(call) # {}) =>
        RenderedTokens(payload) = Expected(call, Present(call))

(* C19 amended: a filter counts when it is present and not the empty       *)
(* string. When one counts, the decision tokens rendered are exactly those *)
(* that satisfy all the filters that count, in their original order:       *)
(* context equal to the given context, usage a case-insensitive substring  *)
(* of the identifier or the description, family a case-insensitive         *)
(* substring of the identifier. When none counts, the summary is returned  *)
(* and no token is rendered.                                               *)
C19_TokensSatisfyAllFilters ==
    call.op = "getColorTokens" =>
        /\ NonEmpty(call) # {} =>
              /\ RenderedTokens(payload) = Expected(call, NonEmpty(call))
              /\ [i \in 1 .. Len(tokens) |-> tokens[i].token] = RenderedTokens(payload)
              /\ call.context = Def(Background) =>
                    \A i \in 1 .. Len(tokens) : tokens[i].context \notin {Text, Artwork}
        /\ NonEmpty(call) = {} =>
              (call.outcome = "summary" /\ RenderedTokens(payload) = <<>>)

\* context and an upper-case usage were given; a token was kept for its
\* description only, others were dropped by the context and by the usage
C19_Witness ==
    /\ call.op = "getColorTokens"
    /\ call.context = Def(Background) /\ call.usage = Def(<<"A">>)
    /\ \E i \in 1 .. Len(tokens) : ~Includes(ToLowerCase(tokens[i].token), <<"a">>)
    /\ \E i \in 1 .. Len(colors.decisionTokens) :
          /\ colors.decisionTokens[i].context = Text
          /\ Includes(ToLowerCase(colors.decisionTokens[i].token), <<"a">>)
    /\ \E i \in 1 .. Len(colors.decisionTokens) :
          /\ colors.decisionTokens[i].context = Background
          /\ colors.decisionTokens[i].token \notin Range(RenderedTokens(payload))

(* C20 as stated: family detail is rendered only when the family filter is *)
(* present, and then for exactly the families whose lower-cased name or    *)
(* category contains the lower-cased family string.                        *)
C20_Original ==
    call.op = "getColorTokens" =>
        RenderedFamilies(payload)
            = (IF call.family.def
               THEN [i \in 1 .. Len(FamiliesContaining(call.family.val)) |->
                        FamiliesContaining(call.family.val)[i].name]
               ELSE <<>>)

(* C20 amended: family detail is rendered only when the family filter is   *)
(* present and not the empty string, and then for exactly the families     *)
(* whose lower-cased name or category contains the lower-cased family      *)
(* string, in their order, each with its full correspondence table (every  *)
(* key with its light and dark value), whatever context and usage are;     *)
(* nothing is rendered when no family matches.                             *)
C20_FamilyDetail ==
    call.op = "getColorTokens" =>
        LET wanted == IF Truthy(call.family) THEN FamiliesContaining(call.family.val)
                      ELSE <<>>
            shown == FamilySections(colorSections)
        IN  /\ RenderedFamilies(payload) = [i \in 1 .. Len(wanted) |-> wanted[i].name]
            /\ Len(shown) = Len(wanted)
            /\ \A i \in 1 .. Len(wanted) :
                  LET table == wanted[i].correspondences
                  IN  /\ Enclosed(shown[i], "### Famille \"", "\" (") = <<wanted[i].name>>
                      /\ Enclosed(shown[i], "\" (", ")\n") = <<wanted[i].category>>
                      /\ Enclosed(shown[i], "  ", " : ")
                           = [k \in 1 .. Len(table) |-> table[k].key]
                      /\ Enclosed(shown[i], " : ", " (clair) / ")
                           = [k \in 1 .. Len(table) |-> table[k].light]
                      /\ Enclosed(shown[i], " (clair) / ", " (sombre)")
                           = [k \in 1 .. Len(table) |-> table[k].dark]

\* with a context given too, a family was rendered for its category only, with
\* a table of several keys, after the decision tokens; another family was not
C20_Witness ==
    /\ call.op = "getColorTokens" /\ call.context.def /\ Truthy(call.family)
    /\ Len(tokens) > 0
    /\ \E i \in 1 .. Len(colors.families) :
          /\ colors.families[i].name \in Range(RenderedFamilies(payload))
          /\ ~Includes(ToLowerCase(colors.families[i].name), ToLowerCase(call.family.val))
          /\ Len(colors.families[i].correspondences) >= 2
    /\ \E i \in 1 .. Len(colors.families) :
          colors.families[i].name \notin Range(RenderedFamilies(payload))

----------------------------------------------------------------------------
(* C21 as stated: with at least one filter present in the call,            *)
(* getColorTokens returns the no-results text iff no decision token        *)
(* satisfies the filters and no family is selected; otherwise it returns   *)
(* the sections.                                                           *)
C21_Original ==
    (call.op = "getColorTokens" /\ Present(call) # {}) =>
        /\ call.outcome = "none" <=>
              /\ Expected(call, Present(call)) = <<>>
              /\ (call.family.def => FamiliesContaining(call.family.val) = <<>>)
        /\ call.outcome \in {"none", "sections"}

\* the filter values a no-results text lists as active, in order
ActiveListed(text) ==
    Split(Enclosed(text, "Aucun token trouve pour ",
                   ". Contextes disponibles : background, text, artwork. Familles : ")[1])

\* the family names a no-results text lists
FamiliesListed(text) ==
    LET at == PositionOf(text, ". Contextes disponibles : background, text, artwork. Familles : ")
    IN  Split(SubSeq(text, at + 1, Len(text)))

\* the values of the filters that count, each as the text shows it
ActiveValues(c) ==
    (IF Truthy(c.context) THEN << <<"context=\"">> \o c.context.val \o <<"\"">> >> ELSE <<>>)
        \o (IF Truthy(c.usage) THEN << <<"usage=\"">> \o c.usage.val \o <<"\"">> >> ELSE <<>>)
        \o (IF Truthy(c.family) THEN << <<"family=\"">> \o c.family.val \o <<"\"">> >> ELSE <<>>)

(* C21 amended: a filter counts when it is present and not the empty       *)
(* string. With at least one such filter, getColorTokens returns the       *)
(* no-results text iff no decision token survives the filters and no       *)
(* family detail is produced; that text lists the values of the filters    *)
(* that count, the available contexts and the family names. Otherwise it   *)
(* returns the non-empty sections, the decision-token section before any   *)
(* family detail. With every filter absent or empty it returns the summary.*)
C21_NoResultsOrSections ==
    call.op = "getColorTokens" =>
        LET wanted == IF Truthy(call.family) THEN FamiliesContaining(call.family.val)
                      ELSE <<>>
            kept == Expected(call, NonEmpty(call))
        IN  /\ NonEmpty(call) = {} => call.outcome = "summary"
            /\ NonEmpty(call) # {} =>
                  /\ call.outcome \in {"none", "sections"}
                  /\ call.outcome = "none" <=> (kept = <<>> /\ wanted = <<>>)
                  /\ call.outcome = "none" =>
                        /\ ActiveListed(payload) = ActiveValues(call)
                        /\ FamiliesListed(payload)
                             = [i \in 1 .. Len(colors.families) |-> colors.families[i].name]
                        /\ RenderedTokens(payload) = <<>>
                        /\ RenderedFamilies(payload) = <<>>
                  /\ call.outcome = "sections" =>
                        /\ Len(colorSections) = (IF kept = <<>> THEN 0 ELSE 1) + Len(wanted)
                        /\ \A k \in 1 .. Len(colorSections) : colorSections[k] # <<>>
                        /\ payload = Join(colorSections, <<"\n\n">>)
                        /\ kept # <<>> => payload[1] = "### Tokens de decision\n"
                        /\ \A i, j \in 1 .. Len(payload) :
                              (payload[i] = "- '" /\ payload[j] = "### Famille \"") => i < j

\* decision tokens and two families were rendered together
C21_Witness ==
    /\ call.op = "getColorTokens" /\ call.outcome = "sections"
    /\ Len(tokens) >= 2
    /\ Len(RenderedFamilies(payload)) >= 2
    /\ Len(colorSections) >= 3

----------------------------------------------------------------------------
(* C25: a key present in the cache stays present with its value until a    *)
(* set that overflows the capacity evicts it or clear is called: a get,    *)
(* hit or miss, a set of another present key and a set of a new key while  *)
(* size < N never remove it or change its value; a step that is no cache   *)
(* call removes nothing; clear removes every entry and leaves size 0.      *)
C25_PresentUntilEvictedOrCleared ==
    [][/\ \A k \in MapKeys(map) :
             /\ (\/ Called("get")
                 \/ (Called("set") /\ lastOp'.key # k /\ ~lastOp'.isNew)
                 \/ (Called("set") /\ lastOp'.isNew /\ Len(map) < maxSize)
                 \/ tick' = tick)
                    => MapGet(map', k) = MapGet(map, k)
             /\ ~MapHas(map', k) =>
                    \/ Called("clear")
                    \/ (Called("set") /\ lastOp'.isNew /\ Len(map) = maxSize)
             /\ (MapHas(map', k) /\ MapGet(map', k) # MapGet(map, k)) =>
                    (Called("set") /\ lastOp'.key = k)
       /\ Called("clear") => (map' = <<>> /\ Len(map') = 0)]_vars

\* a cache that held two entries through a missed get was cleared
C25_Witness ==
    /\ cstate = "ready" /\ lastOp.op = "clear" /\ size = 0
    /\ Cardinality(lastOp.evicted) >= 2
    /\ prevOp.op = "get" /\ ~prevOp.hit

----------------------------------------------------------------------------
(* C26: a readFileWithCache miss on a file that is not on disk returns     *)
(* undefined without throwing and leaves the cache as it was: same keys,   *)
(* same values, same recency order; the same read right after it misses    *)
(* again and goes back to the disk.                                        *)
C26_AbsentFileNotCached ==
    [][(Handled /\ call'.path # <<>> /\ ~MapHas(map, call'.path)
          /\ call'.path \notin DOMAIN disk) =>
         LET again == ReadFileWithCache(map', maxSize, disk, call'.path)
         IN  /\ call'.outcome = "missingFile"
             /\ ret' = Undefined
             /\ map' = map
             /\ ~MapHas(map', call'.path)
             /\ trace' = <<"cache.get", "existsSync">>
             /\ again.trace = <<"cache.get", "existsSync">>
             /\ ~again.threw /\ ~again.ret.def]_vars

\* a miss on an absent file with the cache full of two other files
C26_Witness ==
    /\ call.outcome = "missingFile"
    /\ call.path \notin DOMAIN disk
    /\ ret = Undefined
    /\ trace = <<"cache.get", "existsSync">>
    /\ maxSize = 2 /\ Len(map) = 2
    /\ ~MapHas(map, call.path)

----------------------------------------------------------------------------
\* the positions, in the entry's declared order, of the sections whose file
\* contains the query
MatchingSections(entry, query) ==
    {j \in 1 .. Len(entry.sections) :
        SectionPath(DOCS_DIR, entry, entry.sections[j]) \in SectionsContaining(entry, query)}

\* the paths of the first n declared sections of an entry, in declared order
DeclaredPaths(entry, n) ==
    [j \in 1 .. n |-> SectionPath(DOCS_DIR, entry, entry.sections[j])]

\* the paths of an entry among the paths read, in the order they were read
ReadsOf(rs, entry) ==
    LET OfEntry(p) == p \in EntryPaths(entry) IN SelectSeq(rs, OfEntry)

(* C27: in searchComponents an entry with no metadata match has its        *)
(* sections read in declared order up to and including the first one whose *)
(* content contains the query; its one result names that section in        *)
(* matchType, and no later section of the entry is read or enters the      *)
(* cache. When no section contains the query all are read and the entry    *)
(* contributes no result.                                                  *)
C27_FirstMatchingSection ==
    /\ [](call.op = "searchComponents" =>
            \A i \in 1 .. Len(index) :
                ~MetadataContains(index[i], call.name) =>
                    LET e == index[i]
                        hits == MatchingSections(e, call.name)
                    IN  IF hits = {}
                        THEN /\ ResultsOf(results, e) = {}
                             /\ ReadsOf(reads, e) = DeclaredPaths(e, Len(e.sections))
                        ELSE LET first == CHOOSE j \in hits : \A k \in hits : j <= k
                             IN  /\ Cardinality(ResultsOf(results, e)) = 1
                                 /\ \A k \in ResultsOf(results, e) :
                                       results[k].matchType =
                                           <<"content (">> \o e.sections[first] \o <<")">>
                                 /\ ReadsOf(reads, e) = DeclaredPaths(e, first))
    /\ [][Searched =>
            \A i \in 1 .. Len(index) :
                (/\ ~MetadataContains(index[i], call'.name)
                 /\ MatchingSections(index[i], call'.name) # {}) =>
                    \A j \in 1 .. Len(index[i].sections) :
                        (\A h \in MatchingSections(index[i], call'.name) : h < j) =>
                            LET p == SectionPath(DOCS_DIR, index[i], index[i].sections[j])
                            IN  MapHas(map', p) => MapHas(map, p)]_vars

\* an entry without metadata match whose two section files both contain the
\* query: the first is read and named, the second is neither read nor cached
C27_Witness ==
    /\ call.op = "searchComponents"
    /\ \E i \in 1 .. Len(index) :
          /\ ~MetadataContains(index[i], call.name)
          /\ MatchingSections(index[i], call.name) = {1, 2}
          /\ \E k \in ResultsOf(results, index[i]) :
                results[k].matchType = <<"content (">> \o index[i].sections[1] \o <<")">>
          /\ ReadsOf(reads, index[i]) = DeclaredPaths(index[i], 1)
          /\ ~MapHas(map, SectionPath(DOCS_DIR, index[i], index[i].sections[2]))

----------------------------------------------------------------------------
(* Reading an excerpt *)

\* the 0-based offset of the first place where the lower-cased content reads q
MatchOffset(c, q) ==
    CHOOSE i \in 0 .. (Len(c) - Len(q)) :
        /\ SubSeq(ToLowerCase(c), i + 1, i + Len(q)) = q
        /\ \A k \in 0 .. (i - 1) : SubSeq(ToLowerCase(c), k + 1, k + Len(q)) # q

\* the characters of c at the 0-based offsets lo .. hi - 1, newlines as spaces
FlatSlice(c, lo, hi) ==
    [i \in 1 .. (hi - lo) |-> IF c[lo + i] = "\n" THEN " " ELSE c[lo + i]]

(* C28 as stated: the excerpt is the slice [max(0, idx-80), min(L, idx+q+80)) *)
(* with newlines as spaces, with a leading ellipsis when the window start  *)
(* was clamped to the content bound (idx-80 below 0) and a trailing one    *)
(* when the window end was clamped to it (idx+q+80 above L).               *)
C28_Original ==
    call.op = "excerpt" =>
        LET idx == MatchOffset(sectionContent, needle)
            L == Len(sectionContent)
            lo == Max(0, idx - ExcerptRadius)
            hi == Min(L, idx + Len(needle) + ExcerptRadius)
        IN  excerpt = (IF idx - ExcerptRadius < 0 THEN <<"...">> ELSE <<>>)
                          \o FlatSlice(sectionContent, lo, hi)
                          \o (IF idx + Len(needle) + ExcerptRadius > L
                              THEN <<"...">> ELSE <<>>)

(* C28 amended: same slice, with a leading ellipsis exactly when the window *)
(* starts after the beginning of the content (idx > 80, the start was not  *)
(* clamped) and a trailing ellipsis exactly when it ends before the end of *)
(* the content (idx+q+80 < L, the end was not clamped).                    *)
C28_ExcerptWindow ==
    call.op = "excerpt" =>
        LET idx == MatchOffset(sectionContent, needle)
            L == Len(sectionContent)
            lo == Max(0, idx - ExcerptRadius)
            hi == Min(L, idx + Len(needle) + ExcerptRadius)
        IN  /\ excerpt = (IF idx > ExcerptRadius THEN <<"...">> ELSE <<>>)
                             \o FlatSlice(sectionContent, lo, hi)
                             \o (IF idx + Len(needle) + ExcerptRadius < L
                                 THEN <<"...">> ELSE <<>>)
            /\ \A i \in 1 .. Len(excerpt) : excerpt[i] # "\n"

\* a match 81 characters into the content and 81 characters before its end:
\* both ends of the window cut text off, and newlines were flattened
C28_Witness ==
    /\ call.op = "excerpt"
    /\ MatchOffset(sectionContent, needle) = ExcerptRadius + 1
    /\ Len(sectionContent)
           = MatchOffset(sectionContent, needle) + Len(needle) + ExcerptRadius + 1
    /\ excerpt[1] = "..." /\ excerpt[Len(excerpt)] = "..."
    /\ Len(excerpt) = 2 * ExcerptRadius + Len(needle) + 2
    /\ \E i \in 1 .. Len(excerpt) : excerpt[i] = " "

----------------------------------------------------------------------------
(* Reading the shared cache *)

\* how many times a call appears in the calls a query made
CountCalls(tr, c) == Cardinality({i \in 1 .. Len(tr) : tr[i] = c})

\* the path docsDir/category/name/section.md of a section of an entry
StatedPath(entry, section) ==
    DOCS_DIR \o <<"/">> \o entry.category \o <<"/">> \o entry.name \o <<"/">>
        \o section \o <<".md">>

(* C29: whatever get_component_doc and search_components calls came        *)
(* before, and for every capacity, the payload of a query is the payload   *)
(* the same query returns on a freshly constructed empty cache of any      *)
(* capacity, where every file is read from the disk.                       *)
C29_CacheTransparent ==
    /\ call.op = "getComponentDoc" =>
          \A n \in 1 .. MaxDocCap :
              \A fresh \in {GetComponentDocResult(index, DOCS_DIR, call.name, call.section,
                                                   <<>>, n, disk)} :
                  /\ payload = fresh.text
                  /\ CountCalls(fresh.trace, "cache.get")
                         = CountCalls(fresh.trace, "existsSync")
    /\ call.op = "searchComponents" =>
          \A n \in 1 .. MaxDocCap :
              \A fresh \in {SearchComponentsResult(index, DOCS_DIR, call.name,
                                                    <<>>, n, disk)} :
                  /\ payload = fresh.text
                  /\ results = fresh.results
                  /\ CountCalls(fresh.trace, "cache.get")
                         = CountCalls(fresh.trace, "existsSync")

\* a document with mixed-case text returned by get_component_doc from the
\* cache, where the search before it had put it
C29_Witness ==
    /\ call.op = "getComponentDoc" /\ call.outcome = "ok"
    /\ trace = <<"cache.get">>
    /\ \E r \in 1 .. Len(reads) : reads[r] = call.path
    /\ \E i \in 1 .. Len(payload) : payload[i] = "C"

(* C30: every key of the shared cache is the path                          *)
(* docsDir/category/name/section.md of an index entry and one of its       *)
(* declared sections, that file is on disk and the value is its text; a    *)
(* lookup that fails (unknown name, section not declared, file missing)    *)
(* leaves the cache as it was.                                             *)
C30_KeysAreDeclaredFiles ==
    /\ [](\A k \in 1 .. Len(map) :
             \E i \in 1 .. Len(index) :
                 \E j \in 1 .. Len(index[i].sections) :
                     /\ map[k].k = StatedPath(index[i], index[i].sections[j])
                     /\ map[k].k \in DOMAIN disk
                     /\ map[k].v = disk[map[k].k])
    /\ [][(Handled /\ call'.outcome \in {"notFound", "unavailable", "missingFile"})
             => map' = map]_vars

\* a lookup of a section the entry does not declare, on a full cache holding
\* a file read by get_component_doc and a file read by search_components
C30_Witness ==
    /\ call.op = "getComponentDoc" /\ call.outcome = "unavailable"
    /\ maxSize = 2 /\ Len(map) = 2
    /\ Len(reads) > 0
    /\ \E k \in 1 .. Len(map) : \A r \in 1 .. Len(reads) : reads[r] # map[k].k

----------------------------------------------------------------------------
(* Reading the start-up *)

\* the artifacts that are not in the docs directory
MissingArtifacts == {f \in DOMAIN artifacts : ~artifacts[f].def}

\* text holds part as a run of consecutive elements
Mentions(text, part) ==
    \E i \in 0 .. (Len(text) - Len(part)) : SubSeq(text, i + 1, i + Len(part)) = part

\* a request has been served
Served == call.op # "none"

(* C22: the index, icons and colors artifacts are each loaded exactly once *)
(* before the transport is connected, and never again; when one of them is *)
(* missing the process ends with an error that names the path of a missing *)
(* artifact and the command `pnpm run fetch-docs`, it never connects and   *)
(* serves no request.                                                      *)
C22_StartupOrdering ==
    /\ \A f \in DOMAIN loads : loads[f] <= 1
    /\ pc \in {"connect", "serving"} =>
          /\ \A f \in DOMAIN loads : loads[f] = 1
          /\ index = artifacts[IndexFile].val
          /\ icons = artifacts[IconsFile].val
          /\ colors = artifacts[ColorsFile].val
    /\ Served => (pc = "serving" /\ MissingArtifacts = {})
    /\ MissingArtifacts # {} =>
          /\ pc \notin {"newCache", "connect", "serving"}
          /\ ~Served
          /\ cstate = "none"
    /\ pc = "exited" =>
          /\ \E f \in MissingArtifacts :
                /\ Mentions(fatal, DOCS_DIR \o <<"/", f>>)
                /\ \A g \in MissingArtifacts : loads[g] = 0
          /\ Mentions(fatal, <<". Run \"pnpm run fetch-docs\" first.">>)
    /\ fatal # <<>> <=> pc = "exited"

\* the index was loaded, then icons.json was found missing: the process
\* ended with the error naming docs/icons.json
C22_Witness ==
    /\ pc = "exited"
    /\ loads[IndexFile] = 1 /\ index = ServedIndex
    /\ MissingArtifacts = {IconsFile}
    /\ Mentions(fatal, DOCS_DIR \o <<"/", "icons.json">>)
    /\ ~Served

(* C24: once loaded, the index, icons and colors structures never change:  *)
(* after any sequence of the five query operations they hold what the      *)
(* artifacts held, in the same order; of the program's state only the      *)
(* cache's entries change.                                                 *)
C24_LoadedStructuresImmutable ==
    /\ [](pc = "serving" =>
            /\ index = artifacts[IndexFile].val
            /\ icons = artifacts[IconsFile].val
            /\ colors = artifacts[ColorsFile].val)
    /\ [][pc = "serving" =>
            /\ index' = index /\ icons' = icons /\ colors' = colors
            /\ maxSize' = maxSize /\ cstate' = cstate
            /\ artifacts' = artifacts /\ disk' = disk]_vars

\* list_components answered after searches, an icon search that kept some
\* icons in another order than the loaded one, a color query and cached reads
C24_Witness ==
    /\ pc = "serving" /\ call.op = "listComponents"
    /\ Len(payload) > 1
    /\ Len(map) >= 2 /\ Len(results) > 0
    /\ Len(limited) >= 2 /\ Len(limited) < Len(icons)
    /\ \E i \in 1 .. Len(limited) : limited[i].icon # icons[i]
    /\ Len(tokens) > 0 /\ Len(tokens) < Len(colors.decisionTokens)

----------------------------------------------------------------------------
(* Reading the order of the cache calls *)

\* no request id comes back in the log after another id followed it
Contiguous(log) ==
    \A a, b, c \in 1 .. Len(log) :
        (a < b /\ b < c /\ log[a] = log[c]) => log[b] = log[a]

(* C23: with several tool requests pending, at most one handler is between *)
(* its first and last statement at any time; the readFileWithCache calls   *)
(* of one handler are never interleaved with those of another; whenever no *)
(* handler is running, and so whenever one begins, the cache with its      *)
(* recency order is the one left by the completed queries run whole, one   *)
(* after the other; and each handler returns what the whole query returns  *)
(* on that cache.                                                          *)
C23_HandlersRunToCompletion ==
    /\ [](/\ Len(running) <= 1
          /\ Contiguous(oplog)
          /\ running = <<>> => map = atomicMap)
    /\ [][\A k \in 1 .. Len(running) :
             (Len(running') < Len(running) /\ NextRead(index, running[k]) = <<>>) =>
                 /\ payload' = Atomic(index, running[k], atomicMap, maxSize, disk).text
                 /\ map' = atomicMap']_vars

\* a handler between two of its reads while another request is pending and
\* the handler of an earlier request has made its reads and returned
C23_Witness ==
    /\ Len(running) = 1 /\ pending # <<>>
    /\ NextRead(index, running[1]) # <<>>
    /\ Len(oplog) >= 3
    /\ oplog[Len(oplog)] = running[1].id
    /\ oplog[1] # running[1].id
    /\ call.op # "none"

====
